---- MODULE Spec2Model ----
(***************************************************************************)
(* The decode -> encode pipeline of xav (src/src/svt.rs): one decoder      *)
(* thread, NumWorkers worker threads, a zero-capacity channel of           *)
(* ChunkData, one encoder child process per received ChunkData, the        *)
(* resume bookkeeping (WorkerStats) and the foreground thread that joins   *)
(* them.  A second specification, SpecProbe, models the target-quality     *)
(* probe driver encode_single_probe.  SpecProgs models the progress        *)
(* tracker of src/src/progs.rs (ProgsTrack) with its three mutexes, the    *)
(* stderr watcher threads and the final update.  SpecAppend, SpecTile and  *)
(* SpecPack apply WorkerStats::add_completion, get_tile_params and the     *)
(* 10-bit pack / unpack routines of src/src/ffms.rs to inputs drawn from   *)
(* bounded sets.  SpecPix follows the frames of one chunk from the decode  *)
(* session to the encoder child's stdin, byte by byte.  SpecPanic is the   *)
(* pipeline with worker threads that can panic, SpecLive the pipeline      *)
(* under fair scheduling.  SpecMain models main and main_with_args of      *)
(* src/src/main.rs: the command line, cmd.txt, the working directory and   *)
(* the terminal.  SpecChroma, SpecCmd, SpecCount and SpecArgs apply        *)
(* get_chroma_loc, make_enc_cmd, the frame counter of the stderr watcher   *)
(* and the save_args / parse_quoted_args pair to inputs drawn from bounded *)
(* sets.                                                                   *)
(***************************************************************************)
EXTENDS Integers, Sequences, FiniteSets, TLC

(***************************************************************************)
(* Bounds of the model.                                                    *)
(***************************************************************************)
\* args.worker: the number of worker threads
NumWorkers == 2
\* inf.frames: the number of frames of the source
FrameCount == 3
\* inf.fps_num and inf.fps_den: 1/5 fps gives a buffer pool of 2 frames
FpsNum == 1
FpsDen == 5
\* the largest size std::fs::metadata reports for an encoded chunk
MaxFileSize == 1
\* the number of stderr lines the watcher threads of a run read in total
MaxReads == 3
\* the largest frame count an encoder progress line reports
MaxLineFrames == 2
\* the number of add_completion calls of the append harness
MaxAppends == 2
\* the largest number of samples of a buffer handed to pack_10bit
MaxSamples == 5
\* the largest inf.width and inf.height of the frame harness
MaxDim == 4
\* the number of frames of the chunk of the frame harness
ChunkFrames == 2
\* the number of hardware threads (available_parallelism)
Threads == 8
\* the largest chroma location of a frame (AVChromaLocation)
MaxChromaLoc == 6
\* the largest number of arguments of a saved command line
MaxArgs == 3

(***************************************************************************)
(* Program constants.                                                      *)
(***************************************************************************)
\* get_max_chunk_size: .min(300)
MaxChunkCap == 300
\* the exit code of std::process::exit(1)
ExitFailure == 1
\* the exit code of a Rust process whose main thread panicked
ExitPanic == 101
\* the exit code of exit_restore
ExitSignal == 130

Workers == 1..NumWorkers
Frames == 0..(FrameCount - 1)
\* the content of a zero-initialised buffer (vec![0u8; size])
Blank == 0 - 1
\* no process exit so far
Running == 0 - 1
NoData == [idx |-> 0 - 1, frames |-> <<>>]
NoComp == [idx |-> 0 - 1, frames |-> 0, size |-> 0]

Min(a, b) == IF a < b THEN a ELSE b

VARIABLES
    quiet,          \* args.quiet
    resume,         \* args.resume
    is_10bit,       \* inf.is_10bit
    chunks,         \* the chunk list handed to encode_all
    resume_data,    \* the ResumeInf loaded at the start of encode_all
    source,         \* the decode session: "unopened", "open", "failed", "destroyed"
    decPc,          \* the decoder thread: "start", "frames", "send", "done", "panicked"
    filtered,       \* decode_chunks: the chunks outside skip_indices
    decK,           \* position of the current chunk in filtered (1-based)
    decI,           \* dec_10bit / dec_8bit: the enumerate() position i
    valid,          \* dec_10bit / dec_8bit: valid
    frames_buffer,  \* dec_10bit / dec_8bit: the pre-allocated buffer pool
    offer,          \* the ChunkData of a send that no worker has taken yet
    extrRes,        \* per source frame: "none", "ok", "err" (result of extr_*)
    sentLog,        \* chunk idx of every send, in order
    recvLog,        \* chunk idx of every successful recv, in order
    wPc,            \* per worker: "recv", "spawn", "wait", "stats", "done"
    wData,          \* per worker: the ChunkData it holds
    wChild,         \* per worker: its child's position in children (0: none)
    wWritten,       \* per worker: write_frames' written
    wComp,          \* per worker: proc_chunk's completion (NoComp: None)
    children,       \* every encoder child spawned, in spawn order
    completed,      \* WorkerStats.completed
    frames_done,    \* WorkerStats.frames_done
    chnks_done,     \* WorkerStats.completions: ResumeInf.chnks_done
    disk,           \* the records of <work_dir>/resume.json
    saveFailed,     \* some save_resume call returned an error
    mainPc,         \* encode_all: "join_dec", "join_workers", "returned"
    joinIdx,        \* encode_all: the worker handle being joined
    exitCode,       \* the exit code of the process (Running: still running)
    probe,          \* encode_single_probe: the state of one probe encode
    worker_cnt,     \* ProgsState.worker_cnt
    lines,          \* ProgsTrack.lines: chunk idx -> frame count of its line
    processed,      \* ProgsTrack.processed
    mutex,          \* the owner of DISPLAY_MUTEX, completions and lines
    uiPc,           \* per watcher thread and for final_update: the position
    child,          \* per chunk idx: "none", "running", "exited"
    encPc,          \* per worker: "next", "wait", "add_held", "done"
    encChunk,       \* per worker: the chunk idx it is encoding
    nextIdx,        \* the next chunk idx the channel hands out
    nRead,          \* the number of stderr lines read so far
    appendArg,      \* append harness: the ChunkComp handed to add_completion
    appendCalls,    \* append harness: the number of add_completion calls
    width,          \* inf.width
    height,         \* inf.height
    tile,           \* the result of get_tile_params (<<>>: not called)
    samples,        \* pack harness: the 10-bit samples handed to pack_10bit
    packed,         \* pack harness: the output buffer of pack_10bit
    unpacked,       \* pack harness: the output buffer of unpack_10bit
    pix,            \* frame harness: one chunk from the source to the child's stdin
    app,            \* main: the command line, the directories, the terminal, the exit
    call            \* function harness: the arguments and the result of one call

pipeVars == <<quiet, resume, is_10bit, chunks, resume_data, source, decPc, filtered,
              decK, decI, valid, frames_buffer, offer, extrRes, sentLog, recvLog,
              wPc, wData, wChild, wWritten, wComp, children, completed, frames_done,
              chnks_done, disk, saveFailed, mainPc, joinIdx, exitCode>>

progVars == <<worker_cnt, lines, processed, mutex, uiPc, child, encPc, encChunk,
              nextIdx, nRead>>

appendVars == <<appendArg, appendCalls>>

tileVars == <<width, height, tile>>

packVars == <<samples, packed, unpacked>>

fnVars == <<appendVars, tileVars, packVars, pix, app, call>>

vars == <<pipeVars, probe, progVars, fnVars>>

(***************************************************************************)
(* Chunk model (crate::chunk, described in section 4.C of the              *)
(* specification): chunks [0,s1), [s1,s2), ..., [sk,F) indexed 0..k.       *)
(***************************************************************************)
RECURSIVE SortedSeq(_)
SortedSeq(S) ==
    IF S = {} THEN <<>>
    ELSE LET m == CHOOSE x \in S : \A y \in S : x <= y
         IN  <<m>> \o SortedSeq(S \ {m})

chunkify(scenes) ==
    LET cuts == <<0>> \o SortedSeq(scenes) \o <<FrameCount>>
    IN  [k \in 1..(Len(cuts) - 1) |->
            [idx |-> k - 1, start |-> cuts[k], end |-> cuts[k + 1]]]

ChunkIdx == {chunks[k].idx : k \in 1..Len(chunks)}
ChunkOf(i) == CHOOSE c \in {chunks[k] : k \in 1..Len(chunks)} : c.idx = i
FramesOf(c) == c.start..(c.end - 1)

\* get_resume: the records of resume.json, here those of a set of chunks
ResumeOf(S) ==
    LET ids == SortedSeq(S)
    IN  [k \in 1..Len(ids) |->
            [idx |-> ids[k],
             frames |-> ChunkOf(ids[k]).end - ChunkOf(ids[k]).start,
             size |-> 1]]

Idxs(rs) == {rs[k].idx : k \in 1..Len(rs)}

RECURSIVE SumFrames(_)
SumFrames(rs) == IF rs = <<>> THEN 0 ELSE Head(rs).frames + SumFrames(Tail(rs))

(***************************************************************************)
(* encode_all, lines 371-394: the skip set and the initial counters.       *)
(***************************************************************************)
\* an empty skip set
skip_indices_Empty == {}

skip_indices == Idxs(resume_data)
completed_count == Cardinality(skip_indices)
completed_frames == SumFrames(resume_data)

get_max_chunk_size == Min((FpsNum * 10 + FpsDen \div 2) \div FpsDen, MaxChunkCap)

(***************************************************************************)
(* decode_chunks, lines 213-214: the chunks outside the skip set, in the   *)
(* order of the chunk list.                                                *)
(***************************************************************************)
\* a filter that walks the chunk list backwards
RECURSIVE FilterSkipped_Reversed(_, _)
FilterSkipped_Reversed(cs, skip) ==
    IF cs = <<>> THEN <<>>
    ELSE FilterSkipped_Reversed(Tail(cs), skip)
             \o (IF Head(cs).idx \in skip THEN <<>> ELSE <<Head(cs)>>)

RECURSIVE FilterSkipped(_, _)
FilterSkipped(cs, skip) ==
    IF cs = <<>> THEN <<>>
    ELSE (IF Head(cs).idx \in skip THEN <<>> ELSE <<Head(cs)>>)
             \o FilterSkipped(Tail(cs), skip)

\* a decoder that ignores the skip set
Filtered_NoSkip == chunks

Filtered == FilterSkipped(chunks, skip_indices)

(***************************************************************************)
(* Initial states: encode_all has built WorkerStats, the channel and the   *)
(* threads; no thread has run yet.  A run that is not a resume starts from *)
(* a working directory main_with_args has just recreated.                  *)
(***************************************************************************)
IdleProbe == [pc |-> "idle", idx |-> 0, nframes |-> 0, written |-> 0,
              child |-> "none", watched |-> FALSE, prog |-> FALSE]

\* no owner of a mutex
Free == 0 - 1
\* get_frame_cnt found no frame count in a line
NoFrames == 0 - 1
Mutexes == {"display", "completions", "lines"}
\* thread ids: the watcher of chunk idx c is c, the foreground thread is
\* FrameCount, worker k is FrameCount + k
MainThread == FrameCount
WorkerThread(k) == FrameCount + k

\* the progress tracker before ProgsTrack::new
ProgsIdle ==
    /\ worker_cnt = NumWorkers
    /\ lines = <<>>
    /\ processed = 0
    /\ mutex = [m \in Mutexes |-> Free]
    /\ uiPc = <<>>
    /\ child = <<>>
    /\ encPc = <<>>
    /\ encChunk = <<>>
    /\ nextIdx = 0
    /\ nRead = 0

\* a buffer that is not allocated
NoBuf == [buf |-> <<>>, st |-> "none", oob |-> 0]

\* main is not running
NoApp == [pc |-> "idle"]

\* no function call
NoCall == [pc |-> "idle"]

\* the frame harness before its chunk is decoded
NoPix == [pc |-> "idle", src |-> <<>>, i |-> 0, frame_buf |-> <<>>,
          frames_buffer |-> <<>>, oob |-> 0, conversion_buf |-> <<>>,
          stdin |-> <<>>, written |-> 0]

\* no function of the harnesses has been called
FnIdle ==
    /\ appendArg = NoComp
    /\ appendCalls = 0
    /\ width = 0
    /\ height = 0
    /\ tile = <<>>
    /\ samples = <<>>
    /\ packed = NoBuf
    /\ unpacked = NoBuf
    /\ pix = NoPix
    /\ app = NoApp
    /\ call = NoCall

PipeInit ==
    /\ quiet \in BOOLEAN
    /\ resume \in BOOLEAN
    /\ is_10bit \in BOOLEAN
    /\ \E scenes \in SUBSET (1..(FrameCount - 1)) : chunks = chunkify(scenes)
    /\ \E S \in SUBSET ChunkIdx :
          /\ (~resume) => S = {}
          /\ resume_data = ResumeOf(S)
    /\ source = "unopened"
    /\ decPc = "start"
    /\ filtered = <<>>
    /\ decK = 1
    /\ decI = 0
    /\ valid = 0
    /\ frames_buffer = [i \in 1..get_max_chunk_size |-> Blank]
    /\ offer = NoData
    /\ extrRes = [f \in Frames |-> "none"]
    /\ sentLog = <<>>
    /\ recvLog = <<>>
    /\ wPc = [w \in Workers |-> "recv"]
    /\ wData = [w \in Workers |-> NoData]
    /\ wChild = [w \in Workers |-> 0]
    /\ wWritten = [w \in Workers |-> 0]
    /\ wComp = [w \in Workers |-> NoComp]
    /\ children = <<>>
    /\ completed = IF quiet THEN 0 ELSE completed_count
    /\ frames_done = IF quiet THEN 0 ELSE completed_frames
    /\ chnks_done = IF quiet THEN <<>> ELSE resume_data
    /\ disk = resume_data
    /\ saveFailed = FALSE
    /\ mainPc = "join_dec"
    /\ joinIdx = 1
    /\ exitCode = Running

Init == PipeInit /\ probe = IdleProbe /\ ProgsIdle /\ FnIdle

Alive == exitCode = Running

(***************************************************************************)
(* The decoder thread: decode_chunks, dec_10bit, dec_8bit.                 *)
(***************************************************************************)
decUnchanged == <<quiet, resume, is_10bit, chunks, resume_data, recvLog, wPc, wData,
                  wChild, wWritten, wComp, children, completed, frames_done,
                  chnks_done, disk, saveFailed, mainPc, joinIdx, exitCode, probe,
                  progVars, fnVars>>

\* the decoder moves to chunk k of filtered, or returns after the last one
DecGoto(k) ==
    /\ decK' = k
    /\ decI' = 0
    /\ valid' = 0
    /\ IF k <= Len(filtered)
          THEN decPc' = "frames" /\ source' = source
          ELSE decPc' = "done" /\ source' = "destroyed"

\* decode_chunks, lines 210-216: open the session, filter the chunks
DecStart ==
    /\ Alive /\ decPc = "start"
    /\ \/ /\ decPc' = "done"
          /\ source' = "failed"
          /\ UNCHANGED <<filtered, decK, decI, valid>>
       \/ /\ filtered' = Filtered
          /\ decK' = 1 /\ decI' = 0 /\ valid' = 0
          /\ IF Filtered # <<>>
                THEN decPc' = "frames" /\ source' = "open"
                ELSE decPc' = "done" /\ source' = "destroyed"
    /\ UNCHANGED <<frames_buffer, offer, extrRes, sentLog>>
    /\ UNCHANGED decUnchanged

\* what a successful extraction leaves in the buffer: the frame, packed by
\* pack_10bit for a 10-bit source (the layout follows is_10bit)
Extracted(f) == f

\* a frame loop that a failed extraction ends (break instead of continue)
Dec10Frame_Break(f, res) ==
    IF res = "err"
      THEN /\ extrRes' = [extrRes EXCEPT ![f] = "err"]
           /\ decI' = filtered[decK].end - filtered[decK].start
           /\ UNCHANGED <<frames_buffer, valid, decPc>>
      ELSE /\ extrRes' = [extrRes EXCEPT ![f] = "ok"]
           /\ IF decI + 1 > Len(frames_buffer)
                 THEN /\ decPc' = "panicked"
                      /\ UNCHANGED <<frames_buffer, valid, decI>>
                 ELSE /\ frames_buffer' = [frames_buffer EXCEPT ![decI + 1] = f]
                      /\ valid' = valid + 1
                      /\ decI' = decI + 1
                      /\ decPc' = decPc

\* dec_10bit, lines 167-174: one iteration of the frame loop
Dec10Frame(f, res) ==
    IF res = "err"
      THEN /\ extrRes' = [extrRes EXCEPT ![f] = "err"]
           /\ decI' = decI + 1
           /\ UNCHANGED <<frames_buffer, valid, decPc>>
      ELSE /\ extrRes' = [extrRes EXCEPT ![f] = "ok"]
           /\ IF decI + 1 > Len(frames_buffer)
                 THEN /\ decPc' = "panicked"
                      /\ UNCHANGED <<frames_buffer, valid, decI>>
                 ELSE /\ frames_buffer' = [frames_buffer EXCEPT ![decI + 1] = Extracted(f)]
                      /\ valid' = valid + 1
                      /\ decI' = decI + 1
                      /\ decPc' = decPc

\* dec_8bit, lines 191-195: one iteration of the frame loop
Dec8Frame(f, res) ==
    IF decI + 1 > Len(frames_buffer)
      THEN /\ decPc' = "panicked"
           /\ UNCHANGED <<frames_buffer, valid, decI, extrRes>>
      ELSE /\ extrRes' = [extrRes EXCEPT ![f] = res]
           /\ decI' = decI + 1
           /\ decPc' = decPc
           /\ IF res = "ok"
                 THEN /\ frames_buffer' = [frames_buffer EXCEPT ![decI + 1] = Extracted(f)]
                      /\ valid' = valid + 1
                 ELSE UNCHANGED <<frames_buffer, valid>>

DecFrame ==
    /\ Alive /\ decPc = "frames"
    /\ LET c == filtered[decK]
           f == c.start + decI
       IN  /\ f < c.end
           /\ \E res \in {"ok", "err"} :
                 IF is_10bit THEN Dec10Frame(f, res) ELSE Dec8Frame(f, res)
    /\ UNCHANGED <<source, filtered, decK, offer, sentLog>>
    /\ UNCHANGED decUnchanged

\* lines 176-178 / 197-199: the ChunkData sent after the frame loop
ChunkDataOf(c) == [idx |-> c.idx, frames |-> SubSeq(frames_buffer, 1, valid)]
\* a decoder that sends only chunks of two frames or more
ShouldSend_AtLeastTwo == valid > 1

ShouldSend == valid > 0

\* the end of the frame loop: send, or go on to the next chunk
DecSend ==
    /\ Alive /\ decPc = "frames"
    /\ LET c == filtered[decK]
       IN  /\ c.start + decI = c.end
           /\ IF ShouldSend
                 THEN /\ offer' = ChunkDataOf(c)
                      /\ sentLog' = Append(sentLog, c.idx)
                      /\ decPc' = "send"
                      /\ UNCHANGED <<source, decK, decI, valid>>
                 ELSE /\ DecGoto(decK + 1)
                      /\ UNCHANGED <<offer, sentLog>>
    /\ UNCHANGED <<filtered, frames_buffer, extrRes>>
    /\ UNCHANGED decUnchanged

\* a channel with room for a ChunkData: send returns at once
SendReturns_Buffered == TRUE

\* encode_all lines 409-410: the channel is bounded(0), so tx.send (line
\* 177) returns once a worker has taken the ChunkData
SendReturns == offer = NoData

DecSent ==
    /\ Alive /\ decPc = "send" /\ SendReturns
    /\ DecGoto(decK + 1)
    /\ UNCHANGED <<filtered, frames_buffer, offer, extrRes, sentLog>>
    /\ UNCHANGED decUnchanged

\* the Sender is dropped when the decoder thread ends
Disconnected == decPc \in {"done", "panicked"}

(***************************************************************************)
(* The worker threads: run_worker, proc_chunk, write_frames,               *)
(* WorkerStats::add_completion.                                            *)
(***************************************************************************)
wUnchanged == <<quiet, resume, is_10bit, chunks, resume_data, source, decPc, filtered,
                decK, decI, valid, frames_buffer, extrRes, sentLog, mainPc, joinIdx,
                probe, progVars, fnVars>>

\* a receive that leaves the ChunkData in the channel
TakeOffer_Peek == offer

\* run_worker, line 323: rx.recv() takes the ChunkData of the pending send
TakeOffer == NoData

Recv(w) ==
    /\ Alive /\ wPc[w] = "recv" /\ offer # NoData
    /\ wData' = [wData EXCEPT ![w] = offer]
    /\ offer' = TakeOffer
    /\ recvLog' = Append(recvLog, offer.idx)
    /\ wPc' = [wPc EXCEPT ![w] = "spawn"]
    /\ UNCHANGED <<wChild, wWritten, wComp, children, completed, frames_done,
                   chnks_done, disk, saveFailed, exitCode>>
    /\ UNCHANGED wUnchanged

\* run_worker, line 323: recv() fails once the Sender is gone; the loop ends
RecvClosed(w) ==
    /\ Alive /\ wPc[w] = "recv" /\ offer = NoData /\ Disconnected
    /\ wPc' = [wPc EXCEPT ![w] = "done"]
    /\ UNCHANGED <<offer, recvLog, wData, wChild, wWritten, wComp, children, completed,
                   frames_done, chnks_done, disk, saveFailed, exitCode>>
    /\ UNCHANGED wUnchanged

\* write_frames, lines 231-255: every frame is written while the child
\* runs (written = n); a child that dies before frame m + 1 is written
\* makes that write fail, which ends the loop with written = m.  The
\* encoder exits with status 0 only after it has read its whole input.
WriteOutcomes(n) ==
    {[written |-> n, st |-> "running"]}
        \cup {[written |-> m, st |-> "exitN"] : m \in 0..(n - 1)}

NewChild(w, st) == [idx |-> wData[w].idx, owner |-> w, st |-> st,
                    reaped |-> FALSE, handled |-> FALSE, meta |-> "none"]

\* proc_chunk, lines 272-291: spawn the encoder child (or exit(1) when the
\* spawn fails) and stream the frames of the ChunkData to its stdin
Spawn(w) ==
    /\ Alive /\ wPc[w] = "spawn"
    /\ \/ \E o \in WriteOutcomes(Len(wData[w].frames)) :
             /\ children' = Append(children, NewChild(w, o.st))
             /\ wChild' = [wChild EXCEPT ![w] = Len(children) + 1]
             /\ wWritten' = [wWritten EXCEPT ![w] = o.written]
             /\ wPc' = [wPc EXCEPT ![w] = "wait"]
             /\ UNCHANGED exitCode
       \/ /\ exitCode' = ExitFailure
          /\ UNCHANGED <<children, wChild, wWritten, wPc>>
    /\ UNCHANGED <<offer, recvLog, wData, wComp, completed, frames_done, chnks_done,
                   disk, saveFailed>>
    /\ UNCHANGED wUnchanged

\* the encoder child, an external process whose stdin has been closed,
\* exits with some status
ChildExit(k) ==
    /\ Alive /\ k \in 1..Len(children) /\ children[k].st = "running"
    /\ \E st \in {"exit0", "exitN"} :
          children' = [children EXCEPT ![k].st = st]
    /\ UNCHANGED <<offer, recvLog, wPc, wData, wChild, wWritten, wComp, completed,
                   frames_done, chnks_done, disk, saveFailed, exitCode>>
    /\ UNCHANGED wUnchanged

\* a driver that never looks at the exit status
StatusFatal_Never(st) == FALSE

\* proc_chunk, lines 294-296: a non-zero exit status ends the process
StatusFatal(st) == st = "exitN"

\* a driver that does not block in wait
ChildExited_NoWait(k) == TRUE

\* proc_chunk, line 293: child.wait() returns once the child has exited
ChildExited(k) == children[k].st # "running"

\* proc_chunk, lines 293-304: wait for the child, check its status, stat
\* the output file
WaitChild(w) ==
    /\ Alive /\ wPc[w] = "wait"
    /\ LET k == wChild[w] IN
       /\ ChildExited(k)
       /\ IF StatusFatal(children[k].st)
            THEN /\ exitCode' = ExitFailure
                 /\ children' = [children EXCEPT ![k].reaped = TRUE]
                 /\ UNCHANGED <<wPc, wComp>>
            ELSE /\ exitCode' = exitCode
                 /\ wPc' = [wPc EXCEPT ![w] = "stats"]
                 /\ \/ \E sz \in 1..MaxFileSize :
                         /\ wComp' = [wComp EXCEPT ![w] =
                               [idx |-> wData[w].idx,
                                frames |-> Len(wData[w].frames),
                                size |-> sz]]
                         /\ children' = [children EXCEPT ![k].reaped = TRUE,
                                                         ![k].meta = "some"]
                    \/ /\ wComp' = [wComp EXCEPT ![w] = NoComp]
                       /\ children' = [children EXCEPT ![k].reaped = TRUE,
                                                       ![k].meta = "missing"]
    /\ UNCHANGED <<offer, recvLog, wData, wChild, wWritten, completed, frames_done,
                   chnks_done, disk, saveFailed>>
    /\ UNCHANGED wUnchanged

\* encode_all, lines 390-394: WorkerStats exists unless the run is quiet
HasStats == ~quiet

\* the worker drops the ChunkData and loops back to recv
LoopBack(w) ==
    /\ wPc' = [wPc EXCEPT ![w] = "recv"]
    /\ wData' = [wData EXCEPT ![w] = NoData]
    /\ wChild' = [wChild EXCEPT ![w] = 0]
    /\ wComp' = [wComp EXCEPT ![w] = NoComp]
    /\ wWritten' = [wWritten EXCEPT ![w] = 0]

\* WorkerStats::add_completion, lines 355-360: push and save under the mutex;
\* the result of save_resume is discarded
add_completion(comp) ==
    /\ chnks_done' = Append(chnks_done, comp)
    /\ \/ disk' = chnks_done' /\ saveFailed' = saveFailed
       \/ disk' = disk /\ saveFailed' = TRUE

\* run_worker, lines 329-337: bump the counters, append the completion,
\* loop back
Record(w) ==
    /\ Alive /\ wPc[w] = "stats"
    /\ IF HasStats
         THEN /\ completed' = completed + 1
              /\ frames_done' = frames_done + wWritten[w]
              /\ IF wComp[w] # NoComp
                   THEN add_completion(wComp[w])
                   ELSE UNCHANGED <<chnks_done, disk, saveFailed>>
         ELSE UNCHANGED <<completed, frames_done, chnks_done, disk, saveFailed>>
    /\ LoopBack(w)
    /\ children' = [children EXCEPT ![wChild[w]].handled = TRUE,
                                    ![wChild[w]].owner = 0]
    /\ UNCHANGED <<offer, recvLog, exitCode>>
    /\ UNCHANGED wUnchanged

(***************************************************************************)
(* The foreground thread: encode_all, lines 438-446.                       *)
(***************************************************************************)
mainUnchanged == <<quiet, resume, is_10bit, chunks, resume_data, source, decPc,
                   filtered, decK, decI, valid, frames_buffer, offer, extrRes, sentLog,
                   recvLog, wPc, wData, wChild, wWritten, wComp, children, completed,
                   frames_done, chnks_done, disk, saveFailed, probe, progVars, fnVars>>

\* decoder.join().unwrap(): a panic of the decoder thread panics the
\* foreground thread, which ends the process
JoinDecoder ==
    /\ Alive /\ mainPc = "join_dec" /\ Disconnected
    /\ IF decPc = "panicked"
         THEN exitCode' = ExitPanic /\ UNCHANGED <<mainPc, joinIdx>>
         ELSE mainPc' = "join_workers" /\ joinIdx' = 1 /\ exitCode' = exitCode
    /\ UNCHANGED mainUnchanged

\* a join that does not wait for the thread
ThreadEnded_Detached(w) == TRUE

\* JoinHandle::join returns once the thread has ended, by returning from
\* run_worker or by a panic
ThreadEnded(w) == wPc[w] \in {"done", "panicked"}

\* handle.join().unwrap() for each worker in turn (a panic of the worker
\* panics the foreground thread, which ends the process), then final_update
JoinWorker ==
    /\ Alive /\ mainPc = "join_workers"
    /\ ThreadEnded(joinIdx)
    /\ IF wPc[joinIdx] = "panicked"
         THEN exitCode' = ExitPanic /\ UNCHANGED <<mainPc, joinIdx>>
         ELSE /\ exitCode' = exitCode
              /\ IF joinIdx < NumWorkers
                   THEN joinIdx' = joinIdx + 1 /\ mainPc' = mainPc
                   ELSE joinIdx' = joinIdx /\ mainPc' = "returned"
    /\ UNCHANGED mainUnchanged

PipeNext ==
    \/ DecStart
    \/ DecFrame
    \/ DecSend
    \/ DecSent
    \/ \E w \in Workers : Recv(w)
    \/ \E w \in Workers : RecvClosed(w)
    \/ \E w \in Workers : Spawn(w)
    \/ \E k \in 1..Len(children) : ChildExit(k)
    \/ \E w \in Workers : WaitChild(w)
    \/ \E w \in Workers : Record(w)
    \/ JoinDecoder
    \/ JoinWorker

Next == PipeNext

Spec == Init /\ [][Next]_vars

(***************************************************************************)
(* The pipeline with a worker thread that can panic: child.wait() returns  *)
(* an error and unwrap() (proc_chunk line 293) unwinds the thread.         *)
(***************************************************************************)
PanicInit == Init /\ ~resume /\ is_10bit

\* proc_chunk line 293: child.wait().unwrap() panics; the thread ends, its
\* clone of the Receiver is dropped, the child is left to itself
WaitPanic(w) ==
    /\ Alive /\ wPc[w] = "wait"
    /\ wPc' = [wPc EXCEPT ![w] = "panicked"]
    /\ wData' = [wData EXCEPT ![w] = NoData]
    /\ UNCHANGED <<offer, recvLog, wChild, wWritten, wComp, children, completed,
                   frames_done, chnks_done, disk, saveFailed, exitCode>>
    /\ UNCHANGED wUnchanged

PanicNext ==
    \/ PipeNext
    \/ \E w \in Workers : WaitPanic(w)

SpecPanic == PanicInit /\ [][PanicNext]_vars

(***************************************************************************)
(* encode_single_probe (built with the vship feature): one target-quality  *)
(* probe encode of the frames of a chunk.  probe.pc is "spawn", "wait" or  *)
(* "returned" (the function has returned to the quality search, which goes *)
(* on to score the probe file).                                            *)
(***************************************************************************)
ProbeInit ==
    /\ PipeInit /\ ProgsIdle /\ FnIdle
    /\ ~quiet /\ ~resume
    /\ \E i \in ChunkIdx, has_prog \in BOOLEAN :
         \E n \in 1..(ChunkOf(i).end - ChunkOf(i).start) :
            probe = [pc |-> "spawn", idx |-> i, nframes |-> n, written |-> 0,
                     child |-> "none", watched |-> FALSE, prog |-> has_prog]

\* encode_single_probe, lines 472-482: spawn the encoder child (or exit(1)),
\* hand its stderr to the progress tracker, stream the frames to its stdin
ProbeSpawn ==
    /\ Alive /\ probe.pc = "spawn"
    /\ \/ /\ \E o \in WriteOutcomes(probe.nframes) :
                probe' = [probe EXCEPT !.pc = "wait", !.child = o.st,
                                       !.written = o.written, !.watched = probe.prog]
          /\ UNCHANGED exitCode
       \/ /\ exitCode' = ExitFailure
          /\ UNCHANGED probe
    /\ UNCHANGED <<quiet, resume, is_10bit, chunks, resume_data, source, decPc,
                   filtered, decK, decI, valid, frames_buffer, offer, extrRes, sentLog,
                   recvLog, wPc, wData, wChild, wWritten, wComp, children, completed,
                   frames_done, chnks_done, disk, saveFailed, mainPc, joinIdx>>
    /\ UNCHANGED <<progVars, fnVars>>

\* the probe's encoder child exits with some status
ProbeChildExit ==
    /\ Alive /\ probe.child = "running"
    /\ \E st \in {"exit0", "exitN"} : probe' = [probe EXCEPT !.child = st]
    /\ UNCHANGED <<pipeVars, progVars, fnVars>>

\* encode_single_probe, line 483: child.wait().unwrap(); the exit status is
\* dropped and the function returns
ProbeWait ==
    /\ Alive /\ probe.pc = "wait" /\ probe.child # "running"
    /\ probe' = [probe EXCEPT !.pc = "returned"]
    /\ UNCHANGED <<pipeVars, progVars, fnVars>>

ProbeNext ==
    \/ ProbeSpawn
    \/ ProbeChildExit
    \/ ProbeWait

SpecProbe == ProbeInit /\ [][ProbeNext]_vars

(***************************************************************************)
(* The progress tracker of a run that is not quiet (src/src/progs.rs).     *)
(* Each worker takes the next chunk, spawns its encoder child and hands    *)
(* the child's stderr to watch_enc, which starts a detached watcher        *)
(* thread; the worker waits for the child and takes the ResumeInf mutex in *)
(* add_completion (the records themselves are modelled in Spec).  The      *)
(* foreground thread joins the workers and calls final_update.             *)
(***************************************************************************)
\* the stderr lines of an encoder child: whether the line contains "error",
\* "Encoding:" and "SUMMARY", and the frame count get_frame_cnt finds in it
Lines ==
    {[err |-> e, enc |-> FALSE, summary |-> FALSE, frames |-> NoFrames] : e \in BOOLEAN}
      \cup {[err |-> FALSE, enc |-> TRUE, summary |-> FALSE, frames |-> n] :
                n \in {NoFrames} \cup 1..MaxLineFrames}
      \cup {[err |-> FALSE, enc |-> TRUE, summary |-> TRUE, frames |-> MaxLineFrames]}

ProgsInit ==
    /\ PipeInit /\ FnIdle
    /\ probe = IdleProbe
    /\ ~quiet /\ ~resume /\ is_10bit
    /\ worker_cnt \in 1..NumWorkers
    /\ lines = <<>>
    /\ processed = completed_frames
    /\ mutex = [m \in Mutexes |-> Free]
    /\ uiPc = [t \in ChunkIdx \cup {MainThread} |->
                  IF t = MainThread THEN "join" ELSE "none"]
    /\ child = [c \in ChunkIdx |-> "none"]
    /\ encPc = [k \in 1..worker_cnt |-> "next"]
    /\ encChunk = [k \in 1..worker_cnt |-> 0]
    /\ nextIdx = 0
    /\ nRead = 0

progUnchanged == <<pipeVars, probe, fnVars, worker_cnt>>

\* run_worker line 323 and proc_chunk lines 272-287: take the next chunk (or
\* end when the channel is closed), spawn the child, start its watcher
StartChild(k) ==
    /\ encPc[k] = "next"
    /\ IF nextIdx < Len(chunks)
         THEN /\ encChunk' = [encChunk EXCEPT ![k] = nextIdx]
              /\ nextIdx' = nextIdx + 1
              /\ child' = [child EXCEPT ![nextIdx] = "running"]
              /\ uiPc' = [uiPc EXCEPT ![nextIdx] = "read"]
              /\ encPc' = [encPc EXCEPT ![k] = "wait"]
         ELSE /\ encPc' = [encPc EXCEPT ![k] = "done"]
              /\ UNCHANGED <<encChunk, nextIdx, child, uiPc>>
    /\ UNCHANGED <<lines, processed, mutex, nRead>>
    /\ UNCHANGED progUnchanged

\* the encoder child exits, which closes its end of the stderr pipe
ChildFinish(c) ==
    /\ child[c] = "running"
    /\ child' = [child EXCEPT ![c] = "exited"]
    /\ UNCHANGED <<lines, processed, mutex, uiPc, encPc, encChunk, nextIdx, nRead>>
    /\ UNCHANGED progUnchanged

\* proc_chunk lines 293-304, run_worker lines 329-334 and add_completion
\* line 356: wait returns, the worker locks the ResumeInf
EncAddLock(k) ==
    /\ encPc[k] = "wait"
    /\ child[encChunk[k]] = "exited"
    /\ mutex["completions"] = Free
    /\ mutex' = [mutex EXCEPT !["completions"] = WorkerThread(k)]
    /\ encPc' = [encPc EXCEPT ![k] = "add_held"]
    /\ UNCHANGED <<lines, processed, uiPc, child, encChunk, nextIdx, nRead>>
    /\ UNCHANGED progUnchanged

\* add_completion lines 357-359: push, save, unlock
EncAddDone(k) ==
    /\ encPc[k] = "add_held"
    /\ mutex' = [mutex EXCEPT !["completions"] = Free]
    /\ encPc' = [encPc EXCEPT ![k] = "next"]
    /\ UNCHANGED <<lines, processed, uiPc, child, encChunk, nextIdx, nRead>>
    /\ UNCHANGED progUnchanged

\* HashMap::insert and HashMap::remove
MapInsert(map, c, v) == [x \in DOMAIN map \cup {c} |-> IF x = c THEN v ELSE map[x]]
MapRemove(map, c) == [x \in DOMAIN map \ {c} |-> map[x]]

\* a difference that is not saturating
FrameDiff_Signed(current, prev_frames) == current - prev_frames

\* up_line line 263: current.saturating_sub(prev_frames)
FrameDiff(current, prev_frames) ==
    IF current > prev_frames THEN current - prev_frames ELSE 0

\* an up_line that keeps the map locked while show_progs runs
AfterUpLine_NoDrop(c) == c

\* up_line line 260: drop(map) unlocks the line map before up_line returns
AfterUpLine(c) == Free

\* up_line lines 243-265, called with track_frames = true (proc_chunk line
\* 287): replace the line of the chunk, add the frame delta to processed
up_line(c, line) ==
    /\ mutex["lines"] = Free
    /\ LET prev_frames == IF c \in DOMAIN lines /\ lines[c] # NoFrames
                             THEN lines[c] ELSE 0
           current == line.frames
       IN  /\ lines' = MapInsert(lines, c, current)
           /\ processed' = IF current # NoFrames
                              THEN processed + FrameDiff(current, prev_frames)
                              ELSE processed
    /\ mutex' = [mutex EXCEPT !["lines"] = AfterUpLine(c)]

\* watch_enc lines 184-209: read the next line of the child's stderr.  A
\* line with "error" is printed (the thread is at "err_write" while it
\* writes); a line with "Encoding:" and without "SUMMARY" goes through
\* up_line and then show_progs; any other line is dropped.
WatchLine(c) ==
    /\ uiPc[c] = "read"
    /\ nRead < MaxReads
    /\ nRead' = nRead + 1
    /\ \E line \in Lines :
          IF line.err
            THEN /\ uiPc' = [uiPc EXCEPT ![c] = "err_write"]
                 /\ UNCHANGED <<lines, processed, mutex>>
            ELSE IF line.enc /\ ~line.summary
                   THEN /\ up_line(c, line)
                        /\ uiPc' = [uiPc EXCEPT ![c] = "sp_display"]
                   ELSE UNCHANGED <<lines, processed, mutex, uiPc>>
    /\ UNCHANGED <<child, encPc, encChunk, nextIdx>>
    /\ UNCHANGED progUnchanged

\* watch_enc lines 197-203: the error line has been written; it has no
\* "Encoding:", so the loop goes on
WatchErr(c) ==
    /\ uiPc[c] = "err_write"
    /\ uiPc' = [uiPc EXCEPT ![c] = "read"]
    /\ UNCHANGED <<lines, processed, mutex, child, encPc, encChunk, nextIdx, nRead>>
    /\ UNCHANGED progUnchanged

\* watch_enc lines 186-189 and 211-212: end of file, which comes only after
\* the child's exit; the watcher removes the line of its chunk and ends
WatchEof(c) ==
    /\ uiPc[c] = "read"
    /\ child[c] = "exited"
    /\ mutex["lines"] = Free
    /\ lines' = MapRemove(lines, c)
    /\ uiPc' = [uiPc EXCEPT ![c] = "dead"]
    /\ UNCHANGED <<processed, mutex, child, encPc, encChunk, nextIdx, nRead>>
    /\ UNCHANGED progUnchanged

\* show_progs line 273: lock DISPLAY_MUTEX
ShowStart(t) ==
    /\ uiPc[t] = "sp_display"
    /\ mutex["display"] = Free
    /\ mutex' = [mutex EXCEPT !["display"] = t]
    /\ uiPc' = [uiPc EXCEPT ![t] = "sp_comp"]
    /\ UNCHANGED <<lines, processed, child, encPc, encChunk, nextIdx, nRead>>
    /\ UNCHANGED progUnchanged

\* show_progs lines 277-279 and 294 (get_bitrate_estimates lines 366-369):
\* lock the ResumeInf, sum the frames and sizes of its records, unlock
ShowComp(t) ==
    /\ uiPc[t] = "sp_comp"
    /\ mutex["completions"] = Free
    /\ uiPc' = [uiPc EXCEPT ![t] = "sp_lines"]
    /\ UNCHANGED <<lines, processed, mutex, child, encPc, encChunk, nextIdx, nRead>>
    /\ UNCHANGED progUnchanged

\* show_progs lines 299-304: one row per line of the map, then one blank
\* row for every value of the range map.len()..=worker_cnt
RenderRows ==
    LET len == Cardinality(DOMAIN lines)
    IN  len + Cardinality(len..worker_cnt)

\* show_progs lines 296-304: lock the line map and write RenderRows rows;
\* the thread is at "sp_render" while it writes
ShowLines(t) ==
    /\ uiPc[t] = "sp_lines"
    /\ mutex["lines"] = Free
    /\ mutex' = [mutex EXCEPT !["lines"] = t]
    /\ uiPc' = [uiPc EXCEPT ![t] = "sp_render"]
    /\ UNCHANGED <<lines, processed, child, encPc, encChunk, nextIdx, nRead>>
    /\ UNCHANGED progUnchanged

\* show_progs lines 305-324: unlock the line map, write the summary line,
\* flush, unlock DISPLAY_MUTEX on return
ShowEnd(t) ==
    /\ uiPc[t] = "sp_render"
    /\ mutex' = [mutex EXCEPT !["lines"] = Free, !["display"] = Free]
    /\ uiPc' = [uiPc EXCEPT ![t] = IF t = MainThread THEN "returned" ELSE "read"]
    /\ UNCHANGED <<lines, processed, child, encPc, encChunk, nextIdx, nRead>>
    /\ UNCHANGED progUnchanged

\* encode_all lines 440-446: every worker is joined, then final_update
FinalUpdate ==
    /\ uiPc[MainThread] = "join"
    /\ \A k \in DOMAIN encPc : encPc[k] = "done"
    /\ uiPc' = [uiPc EXCEPT ![MainThread] = "sp_display"]
    /\ UNCHANGED <<lines, processed, mutex, child, encPc, encChunk, nextIdx, nRead>>
    /\ UNCHANGED progUnchanged

ProgsNext ==
    \/ \E k \in DOMAIN encPc : StartChild(k)
    \/ \E c \in DOMAIN child : ChildFinish(c)
    \/ \E k \in DOMAIN encPc : EncAddLock(k)
    \/ \E k \in DOMAIN encPc : EncAddDone(k)
    \/ \E c \in DOMAIN child : WatchLine(c)
    \/ \E c \in DOMAIN child : WatchErr(c)
    \/ \E c \in DOMAIN child : WatchEof(c)
    \/ \E t \in DOMAIN uiPc : ShowStart(t)
    \/ \E t \in DOMAIN uiPc : ShowComp(t)
    \/ \E t \in DOMAIN uiPc : ShowLines(t)
    \/ \E t \in DOMAIN uiPc : ShowEnd(t)
    \/ FinalUpdate

SpecProgs == ProgsInit /\ [][ProgsNext]_vars

(***************************************************************************)
(* WorkerStats::add_completion on its own: the same ChunkComp is handed to *)
(* it MaxAppends times, starting from the ResumeInf of a run.              *)
(***************************************************************************)
AppendInit ==
    /\ PipeInit /\ ProgsIdle
    /\ ~quiet
    /\ probe = IdleProbe
    /\ \E i \in ChunkIdx \ Idxs(chnks_done), sz \in 1..MaxFileSize :
          appendArg = [idx |-> i,
                       frames |-> ChunkOf(i).end - ChunkOf(i).start,
                       size |-> sz]
    /\ appendCalls = 0
    /\ width = 0 /\ height = 0 /\ tile = <<>>
    /\ samples = <<>> /\ packed = NoBuf /\ unpacked = NoBuf
    /\ pix = NoPix
    /\ app = NoApp
    /\ call = NoCall

AppendCall ==
    /\ appendCalls < MaxAppends
    /\ add_completion(appendArg)
    /\ appendCalls' = appendCalls + 1
    /\ UNCHANGED <<quiet, resume, is_10bit, chunks, resume_data, source, decPc,
                   filtered, decK, decI, valid, frames_buffer, offer, extrRes, sentLog,
                   recvLog, wPc, wData, wChild, wWritten, wComp, children, completed,
                   frames_done, mainPc, joinIdx, exitCode, probe>>
    /\ UNCHANGED <<appendArg, progVars, tileVars, packVars, pix, app, call>>

AppendNext == AppendCall

SpecAppend == AppendInit /\ [][AppendNext]_vars

\* the pipeline of the function harnesses below, which do not run it
HarnessPipe ==
    /\ PipeInit /\ ProgsIdle
    /\ probe = IdleProbe
    /\ ~quiet /\ ~resume /\ is_10bit
    /\ Len(chunks) = 1

harnessUnchanged == <<pipeVars, probe, progVars, appendVars, pix, app, call>>

(***************************************************************************)
(* get_tile_params (svt.rs lines 18-39) applied to the frame sizes of      *)
(* Dims x Dims.                                                            *)
(***************************************************************************)
Dims == {640, 1080, 1081, 1920, 2160, 2161, 3840, 7680}

\* a rule that takes a landscape frame for a portrait frame
get_tile_params_Swapped(w, h) ==
    LET is_vertical == w > h
        max_dim == IF w > h THEN w ELSE h
    IN  IF max_dim <= 1080 THEN <<"0", "0">>
        ELSE IF max_dim <= 2160
               THEN (IF is_vertical THEN <<"0", "1">> ELSE <<"1", "0">>)
               ELSE (IF is_vertical THEN <<"0", "2">> ELSE <<"2", "0">>)

\* the pair (tile_cols, tile_rows) of line 102
get_tile_params(w, h) ==
    LET is_vertical == h > w
        max_dim == IF w > h THEN w ELSE h
    IN  IF max_dim <= 1080 THEN <<"0", "0">>
        ELSE IF max_dim <= 2160
               THEN (IF is_vertical THEN <<"0", "1">> ELSE <<"1", "0">>)
               ELSE (IF is_vertical THEN <<"0", "2">> ELSE <<"2", "0">>)

TileInit ==
    /\ HarnessPipe
    /\ appendArg = NoComp /\ appendCalls = 0
    /\ width \in Dims
    /\ height \in Dims
    /\ tile = <<>>
    /\ samples = <<>> /\ packed = NoBuf /\ unpacked = NoBuf
    /\ pix = NoPix
    /\ app = NoApp
    /\ call = NoCall

\* make_enc_cmd line 102
TileCall ==
    /\ tile = <<>>
    /\ tile' = get_tile_params(width, height)
    /\ UNCHANGED <<width, height, packVars>>
    /\ UNCHANGED harnessUnchanged

TileNext == TileCall

SpecTile == TileInit /\ [][TileNext]_vars

(***************************************************************************)
(* The 10-bit codec of src/src/ffms.rs: pack_10bit and unpack_10bit        *)
(* applied to buffers of samples drawn from SampleVals.  A buffer is a     *)
(* sequence of bytes (position 1 is byte 0).                               *)
(***************************************************************************)
SampleVals == {0, 341, 682, 1023}

\* a | b on unsigned integers
RECURSIVE BitOr(_, _)
BitOr(a, b) ==
    IF a = 0 THEN b
    ELSE IF b = 0 THEN a
    ELSE (IF a % 2 = 1 \/ b % 2 = 1 THEN 1 ELSE 0) + 2 * BitOr(a \div 2, b \div 2)

\* u16::to_le_bytes
LeBytes(v) == <<v % 256, (v \div 256) % 256>>
\* u16::from_le_bytes
FromLe(lo, hi) == lo + 256 * hi

\* the samples of S as little-endian 16-bit words
RECURSIVE WordBytes(_)
WordBytes(S) == IF S = <<>> THEN <<>> ELSE LeBytes(Head(S)) \o WordBytes(Tail(S))

Zeros(n) == [i \in 1..n |-> 0]

\* pack_4_pix_10bit, lines 424-435
pack_4_pix_10bit(input) ==
    LET p0 == FromLe(input[1], input[2]) % 1024
        p1 == FromLe(input[3], input[4]) % 1024
        p2 == FromLe(input[5], input[6]) % 1024
        p3 == FromLe(input[7], input[8]) % 1024
    IN  <<p0 % 256,
          BitOr(p0 \div 256, (p1 % 64) * 4) % 256,
          BitOr(p1 \div 64, (p2 % 16) * 16) % 256,
          BitOr(p2 \div 16, (p3 % 4) * 64) % 256,
          (p3 \div 4) % 256>>

\* an unpack that takes p1 from the wrong bits of byte 2
unpack_4_pix_10bit_BadShift(input) ==
    LET p0 == BitOr(input[1], (input[2] % 4) * 256)
        p1 == BitOr(input[2] \div 4, (input[3] % 16) * 16)
        p2 == BitOr(input[3] \div 16, (input[4] % 64) * 16)
        p3 == BitOr(input[4] \div 64, input[5] * 4)
    IN  LeBytes(p0) \o LeBytes(p1) \o LeBytes(p2) \o LeBytes(p3)

\* unpack_4_pix_10bit, lines 438-448
unpack_4_pix_10bit(input) ==
    LET p0 == BitOr(input[1], (input[2] % 4) * 256)
        p1 == BitOr(input[2] \div 4, (input[3] % 16) * 64)
        p2 == BitOr(input[3] \div 16, (input[4] % 64) * 16)
        p3 == BitOr(input[4] \div 64, input[5] * 4)
    IN  LeBytes(p0) \o LeBytes(p1) \o LeBytes(p2) \o LeBytes(p3)

\* the bytes of buf from offset off (0-based) on, len of them
Slice(buf, off, len) == SubSeq(buf, off + 1, off + len)

\* buf with the bytes of src written at offset off; bytes that fall past
\* the end of buf are not part of it
WriteAt(buf, off, src) ==
    [i \in 1..Len(buf) |->
        IF i > off /\ i <= off + Len(src) THEN src[i - off] ELSE buf[i]]

\* the number of bytes of a write of len bytes at offset off that fall past
\* the end of a buffer of n bytes
PastEnd(n, off, len) ==
    IF off + len > n THEN off + len - (IF off > n THEN off ELSE n) ELSE 0

\* pack_10bit lines 465-475: the first k groups of 8 input bytes, packed
RECURSIVE PackGroups(_, _, _)
PackGroups(input, output, k) ==
    IF k = 0 THEN output
    ELSE WriteAt(PackGroups(input, output, k - 1), (k - 1) * 5,
                 pack_4_pix_10bit(Slice(input, (k - 1) * 8, 8)))

\* pack_10bit, lines 450-489: the output buffer after the call and the
\* number of bytes the write of the trailing group put past its end
pack_10bit(input, output) ==
    LET in_len == Len(input)
        out_len == Len(output)
        num_chunks == Min(in_len \div 8, out_len \div 5)
        remaining_in == in_len % 8
        processed_in == num_chunks * 8
        processed_out == num_chunks * 5
        full == PackGroups(input, output, num_chunks)
        temp == Slice(input, processed_in, remaining_in) \o Zeros(8 - remaining_in)
    IN  IF remaining_in > 0
          THEN [buf |-> WriteAt(full, processed_out, pack_4_pix_10bit(temp)),
                st |-> "packed",
                oob |-> PastEnd(out_len, processed_out, 5)]
          ELSE [buf |-> full, st |-> "packed", oob |-> 0]

\* unpack_10bit lines 505-516: the first k groups of 5 input bytes, unpacked
RECURSIVE UnpackGroups(_, _, _)
UnpackGroups(input, output, k) ==
    IF k = 0 THEN output
    ELSE WriteAt(UnpackGroups(input, output, k - 1), (k - 1) * 8,
                 unpack_4_pix_10bit(Slice(input, (k - 1) * 5, 5)))

\* unpack_10bit, lines 491-517
unpack_10bit(input, output) ==
    LET num_chunks == Min(Len(input) \div 5, Len(output) \div 8)
    IN  [buf |-> UnpackGroups(input, output, num_chunks), st |-> "unpacked", oob |-> 0]

\* calc_packed_size and calc_10bit_size for a frame of n samples
PackedSize(n) == (n * 5) \div 4
UnpackedSize(n) == n * 2

\* dec_10bit lines 156-162 and run_worker line 321: zeroed buffers of the
\* sizes the pipeline allocates for a frame of Len(samples) samples
PackInit ==
    /\ HarnessPipe
    /\ appendArg = NoComp /\ appendCalls = 0
    /\ width = 0 /\ height = 0 /\ tile = <<>>
    /\ \E n \in 4..MaxSamples : samples \in [1..n -> SampleVals]
    /\ packed = [buf |-> Zeros(PackedSize(Len(samples))), st |-> "new", oob |-> 0]
    /\ unpacked = [buf |-> Zeros(UnpackedSize(Len(samples))), st |-> "new", oob |-> 0]
    /\ pix = NoPix
    /\ app = NoApp
    /\ call = NoCall

\* dec_10bit line 172.  A write past the end of the output buffer is
\* undefined behaviour: the call returns with memory outside the buffer
\* overwritten, or the process is aborted.
PackCall ==
    /\ packed.st = "new"
    /\ LET res == pack_10bit(WordBytes(samples), packed.buf)
       IN  \/ packed' = res
           \/ res.oob > 0 /\ packed' = [res EXCEPT !.st = "aborted"]
    /\ UNCHANGED <<samples, unpacked, tileVars>>
    /\ UNCHANGED harnessUnchanged

\* write_frames line 240
UnpackCall ==
    /\ packed.st = "packed" /\ unpacked.st = "new"
    /\ unpacked' = unpack_10bit(packed.buf, unpacked.buf)
    /\ UNCHANGED <<samples, packed, tileVars>>
    /\ UNCHANGED harnessUnchanged

PackNext ==
    \/ PackCall
    \/ UnpackCall

SpecPack == PackInit /\ [][PackNext]_vars

(***************************************************************************)
(* One chunk of ChunkFrames frames of a width x height source on its way   *)
(* from the decode session to the stdin of its encoder child: extr_10bit   *)
(* and pack_10bit (dec_10bit) or extr_8bit (dec_8bit) into the buffer      *)
(* pool, then unpack_10bit or conv_to_10bit into the worker's conversion   *)
(* buffer and write_all (write_frames).  Every frame is extracted          *)
(* successfully and the child reads all it is sent.                        *)
(***************************************************************************)
\* ffms.rs lines 357-364 and 410-414, in bytes, for inf.width x inf.height
calc_8bit_size == (width * height * 3) \div 2
calc_packed_size == (((width * height * 3) \div 2) * 5) \div 4
calc_10bit_size ==
    LET y_size == width * height * 2
        uv_size == y_size \div 4
    IN  y_size + uv_size * 2

\* the frames FFMS_GetFrame returns: stored as 16-bit words (deep) or as
\* bytes, with the samples base, base + step, ... over the planes Y, U, V
SrcFrames ==
    {[deep |-> d, base |-> p[1], step |-> p[2]] :
        d \in BOOLEAN, p \in {<<0, 341>>, <<1023, 0>>, <<682, 1>>}}

\* the samples extr_8bit and extr_10bit copy from frame f, in the order of
\* their row loops: width * height of Y, (width / 2) * (height / 2) of U
\* and as many of V
PlaneSamples(f) ==
    LET n == width * height + 2 * ((width \div 2) * (height \div 2))
        m == IF f.deep THEN 1024 ELSE 256
    IN  [j \in 1..n |-> (f.base + (j - 1) * f.step) % m]

\* a widening that writes the high byte first
Widen_BigEndian(pixel) ==
    <<((pixel * 4) % 65536) \div 256, ((pixel * 4) % 65536) % 256>>

\* lines 418 and 535: (u16::from(pixel) << 2).to_le_bytes()
Widen(pixel) == LeBytes((pixel * 4) % 65536)

\* copy_plane_8to10, lines 519-543: the rows of a plane, every byte widened
RECURSIVE copy_plane_8to10(_)
copy_plane_8to10(src) ==
    IF src = <<>> THEN <<>> ELSE Widen(Head(src)) \o copy_plane_8to10(Tail(src))

\* conv_to_10bit, lines 416-421: zip stops at the shorter of the input and
\* the 2-byte chunks of the output
RECURSIVE conv_to_10bit(_, _)
conv_to_10bit(input, output) ==
    IF input = <<>> \/ Len(output) < 2 THEN output
    ELSE Widen(Head(input)) \o conv_to_10bit(Tail(input), SubSeq(output, 3, Len(output)))

\* extr_8bit, lines 366-408
extr_8bit(f, output) == WriteAt(output, 0, PlaneSamples(f))

\* extr_10bit, lines 563-629: copy_plane_10to10 for a frame stored as
\* 16-bit words, copy_plane_8to10 for a frame stored as bytes
extr_10bit(f, output) ==
    WriteAt(output, 0, IF f.deep THEN WordBytes(PlaneSamples(f))
                                 ELSE copy_plane_8to10(PlaneSamples(f)))

PixInit ==
    /\ PipeInit /\ ProgsIdle
    /\ probe = IdleProbe
    /\ ~quiet /\ ~resume /\ Len(chunks) = 1
    /\ appendArg = NoComp /\ appendCalls = 0
    /\ tile = <<>>
    /\ samples = <<>> /\ packed = NoBuf /\ unpacked = NoBuf
    /\ app = NoApp
    /\ call = NoCall
    /\ width \in 1..MaxDim
    /\ height \in 1..MaxDim
    /\ \E src \in [1..ChunkFrames -> SrcFrames] :
          /\ is_10bit \/ \A k \in 1..ChunkFrames : ~src[k].deep
          /\ pix = [pc |-> "decode", src |-> src, i |-> 0,
                    frame_buf |-> IF is_10bit THEN Zeros(calc_10bit_size) ELSE <<>>,
                    frames_buffer |->
                        [k \in 1..ChunkFrames |->
                            Zeros(IF is_10bit THEN calc_packed_size ELSE calc_8bit_size)],
                    oob |-> 0,
                    conversion_buf |-> Zeros(calc_10bit_size),
                    stdin |-> <<>>, written |-> 0]

pixUnchanged == <<pipeVars, probe, progVars, appendVars, tileVars, packVars, app, call>>

\* dec_10bit lines 167-174, dec_8bit lines 191-195: one iteration of the
\* frame loop.  A write of pack_10bit past the end of the pool buffer is
\* undefined behaviour: the call returns with memory outside the buffer
\* overwritten, or the process is aborted.
PixDecode ==
    /\ pix.pc = "decode" /\ pix.i < Len(pix.src)
    /\ LET f == pix.src[pix.i + 1] IN
       IF is_10bit
         THEN LET fb == extr_10bit(f, pix.frame_buf)
                  res == pack_10bit(fb, pix.frames_buffer[pix.i + 1])
                  nxt == [pix EXCEPT !.frame_buf = fb,
                                     !.frames_buffer[pix.i + 1] = res.buf,
                                     !.oob = @ + res.oob,
                                     !.i = @ + 1]
              IN  \/ pix' = nxt
                  \/ res.oob > 0 /\ pix' = [nxt EXCEPT !.pc = "aborted"]
         ELSE pix' = [pix EXCEPT !.frames_buffer[pix.i + 1] = extr_8bit(f, @),
                                 !.i = @ + 1]
    /\ UNCHANGED pixUnchanged

\* dec_10bit lines 176-178, run_worker line 323: the ChunkData with the
\* first valid buffers of the pool goes to a worker
PixSend ==
    /\ pix.pc = "decode" /\ pix.i = Len(pix.src)
    /\ pix' = [pix EXCEPT !.pc = "write"]
    /\ UNCHANGED pixUnchanged

\* write_frames lines 237-254: one iteration of the loop over the frames
PixWrite ==
    /\ pix.pc = "write" /\ pix.written < pix.i
    /\ LET frame == pix.frames_buffer[pix.written + 1]
           buf == IF is_10bit THEN unpack_10bit(frame, pix.conversion_buf).buf
                              ELSE conv_to_10bit(frame, pix.conversion_buf)
       IN  pix' = [pix EXCEPT !.conversion_buf = buf,
                              !.stdin = @ \o buf,
                              !.written = @ + 1]
    /\ UNCHANGED pixUnchanged

PixNext ==
    \/ PixDecode
    \/ PixSend
    \/ PixWrite

SpecPix == PixInit /\ [][PixNext]_vars

(***************************************************************************)
(* main (src/src/main.rs): the command line, the arguments saved in        *)
(* cmd.txt, the working directory and the terminal of one run of the       *)
(* program.  A string is a sequence of characters; the working directory   *)
(* of an input is keyed by the input path (hash_input), and the paths of   *)
(* the model have no directory part.  encode_all is one step with the      *)
(* outcomes the pipeline specifications show.                              *)
(***************************************************************************)
\* Option<u32>::None, and a string that does not parse as a number
NoNoise == 0 - 1
NoNum == 0 - 1

\* str::parse::<usize> on a string of decimal digits
RECURSIVE ParseUsize(_)
ParseUsize(s) ==
    LET digit(c) == CASE c = "0" -> 0 [] c = "1" -> 1 [] c = "2" -> 2 [] c = "3" -> 3
                      [] c = "4" -> 4 [] c = "5" -> 5 [] c = "6" -> 6 [] c = "7" -> 7
                      [] c = "8" -> 8 [] c = "9" -> 9 [] OTHER -> NoNum
    IN  IF s = <<>> THEN NoNum
        ELSE IF Len(s) = 1 THEN digit(s[1])
        ELSE LET hi == ParseUsize(SubSeq(s, 1, Len(s) - 1))
                 lo == digit(s[Len(s)])
             IN  IF hi = NoNum \/ lo = NoNum THEN NoNum ELSE hi * 10 + lo

\* str::trim for strings whose only whitespace is the space
RECURSIVE Trim(_)
Trim(s) ==
    IF s = <<>> THEN s
    ELSE IF Head(s) = " " THEN Trim(Tail(s))
    ELSE IF s[Len(s)] = " " THEN Trim(SubSeq(s, 1, Len(s) - 1))
    ELSE s

\* Path::file_stem of a path without directory part (<<>>: None)
file_stem(path) ==
    IF path = <<>> \/ path = <<".", ".">> THEN <<>>
    ELSE LET dots == {k \in 2..Len(path) : path[k] = "."}
         IN  IF dots = {} THEN path
             ELSE SubSeq(path, 1, (CHOOSE k \in dots : \A m \in dots : m <= k) - 1)

\* the Args of get_args, lines 131-142, before any argument is read
EmptyArgs == [ok |-> "ok", worker |-> 0, scene_file |-> <<>>, params |-> <<>>,
              resume |-> FALSE, quiet |-> FALSE, noise |-> NoNoise,
              input |-> <<>>, output |-> <<>>]
\* Err(..) of get_args, and a panic inside it
ErrArgs == [EmptyArgs EXCEPT !.ok = "err"]
PanicArgs == [EmptyArgs EXCEPT !.ok = "panic"]

\* apply_defaults line 98-106 for the number of hardware threads
WorkerFor(threads) ==
    IF threads >= 32 THEN 8
    ELSE IF threads >= 24 THEN 6
    ELSE IF threads >= 16 THEN 4
    ELSE IF threads >= 12 THEN 3
    ELSE IF threads >= 8 THEN 2
    ELSE 1

\* apply_defaults, lines 96-124 (built without the vship feature);
\* file_stem().unwrap() panics for an input without file name
apply_defaults(a) ==
    LET a1 == IF a.worker = 0
                THEN [a EXCEPT !.worker = WorkerFor(Threads),
                               !.params = Trim(<<"-", "-", "l", "p", " ", "3", " ">> \o a.params)]
                ELSE a
        stem == file_stem(a1.input)
    IN  IF (a1.output = <<>> \/ a1.scene_file = <<>>) /\ stem = <<>> THEN PanicArgs
        ELSE [a1 EXCEPT !.output = IF @ = <<>> THEN stem \o <<"_", "a", "v", "1", ".", "m", "k", "v">> ELSE @,
                        !.scene_file = IF @ = <<>> THEN <<"s", "c", "d", "_">> \o stem \o <<".", "t", "x", "t">> ELSE @]

\* get_args lines 144-205: the loop over the arguments from position i on
\* (1-based; args[1] is the program name)
RECURSIVE ParseOpts(_, _, _)
ParseOpts(args, i, acc) ==
    IF i > Len(args) \/ acc.ok # "ok" THEN acc
    ELSE LET a == args[i]
             has == i + 1 <= Len(args)
             v == IF has THEN args[i + 1] ELSE <<>>
             n == ParseUsize(v)
         IN  IF a \in {<<"-", "w">>, <<"-", "-", "w", "o", "r", "k", "e", "r">>}
               THEN ParseOpts(args, i + 2,
                        IF ~has THEN acc
                        ELSE IF n = NoNum THEN ErrArgs
                        ELSE [acc EXCEPT !.worker = n])
             ELSE IF a \in {<<"-", "s">>, <<"-", "-", "s", "c">>}
               THEN ParseOpts(args, i + 2,
                        IF has THEN [acc EXCEPT !.scene_file = v] ELSE acc)
             ELSE IF a \in {<<"-", "p">>, <<"-", "-", "p", "a", "r", "a", "m">>}
               THEN ParseOpts(args, i + 2,
                        IF has THEN [acc EXCEPT !.params = v] ELSE acc)
             ELSE IF a \in {<<"-", "r">>, <<"-", "-", "r", "e", "s", "u", "m", "e">>}
               THEN ParseOpts(args, i + 1, [acc EXCEPT !.resume = TRUE])
             ELSE IF a \in {<<"-", "q">>, <<"-", "-", "q", "u", "i", "e", "t">>}
               THEN ParseOpts(args, i + 1, [acc EXCEPT !.quiet = TRUE])
             ELSE IF a \in {<<"-", "n">>, <<"-", "-", "n", "o", "i", "s", "e">>}
               THEN ParseOpts(args, i + 2,
                        IF ~has THEN acc
                        ELSE IF n = NoNum \/ n < 1 \/ n > 64 THEN ErrArgs
                        ELSE [acc EXCEPT !.noise = n * 100])
             ELSE IF a = <<>> \/ a[1] # "-"
               THEN ParseOpts(args, i + 1,
                        IF acc.input = <<>> THEN [acc EXCEPT !.input = a]
                        ELSE IF acc.output = <<>> THEN [acc EXCEPT !.output = a]
                        ELSE acc)
             ELSE ErrArgs

\* save_args, lines 247-255: the text written to cmd.txt
RECURSIVE save_args(_)
save_args(cmd) ==
    IF cmd = <<>> THEN <<>>
    ELSE LET arg == Head(cmd)
             quoted == IF \E k \in 1..Len(arg) : arg[k] = " "
                         THEN <<"\"">> \o arg \o <<"\"">> ELSE arg
         IN  IF Len(cmd) = 1 THEN quoted
             ELSE quoted \o <<" ">> \o save_args(Tail(cmd))

\* parse_quoted_args, lines 271-294: the loop over the characters from
\* position k on, then the last argument
RECURSIVE ParseChars(_, _, _, _, _)
ParseChars(cmd_line, k, args, current_arg, in_quotes) ==
    IF k > Len(cmd_line)
      THEN (IF current_arg # <<>> THEN Append(args, current_arg) ELSE args)
    ELSE LET ch == cmd_line[k]
         IN  IF ch = "\""
               THEN ParseChars(cmd_line, k + 1, args, current_arg, ~in_quotes)
             ELSE IF ch = " " /\ ~in_quotes
               THEN (IF current_arg # <<>>
                       THEN ParseChars(cmd_line, k + 1, Append(args, current_arg),
                                       <<>>, in_quotes)
                       ELSE ParseChars(cmd_line, k + 1, args, current_arg, in_quotes))
             ELSE ParseChars(cmd_line, k + 1, args, Append(current_arg, ch), in_quotes)

parse_quoted_args(cmd_line) == ParseChars(cmd_line, 1, <<>>, <<>>, FALSE)

\* a directory that does not exist
NoDir == [exists |-> FALSE, cmd_exists |-> FALSE, cmd |-> <<>>, files |-> {}]

\* the working directory of an input in the directories d
WorkDir(d, input) == IF input \in DOMAIN d THEN d[input] ELSE NoDir

\* get_args, lines 126-239, and get_saved_args, lines 257-269, in the
\* directories d
RECURSIVE get_args(_, _)
get_args(args, d) ==
    IF Len(args) < 2 THEN ErrArgs
    ELSE LET p == ParseOpts(args, 2, EmptyArgs)
             r == apply_defaults(p)
             dir == WorkDir(d, p.input)
             saved_args == IF dir.exists /\ dir.cmd_exists
                             THEN get_args(parse_quoted_args(dir.cmd), d)
                             ELSE ErrArgs
         IN  IF p.ok # "ok" THEN p
             ELSE IF p.resume
               THEN (IF saved_args.ok = "ok" THEN [saved_args EXCEPT !.resume = TRUE]
                                              ELSE saved_args)
             ELSE IF r.ok # "ok" THEN r
             ELSE IF r.worker = 0 \/ r.scene_file = <<>> \/ r.input = <<>> \/ r.output = <<>>
               THEN ErrArgs
             ELSE r

\* the input paths and the command lines of the model
Inputs == {<<"a">>, <<"b", ".", "m">>}
OptionArgs ==
    {(IF q THEN <<<<"-", "q">>>> ELSE <<>>) \o (IF w THEN <<<<"-", "w">>, <<"3">>>> ELSE <<>>)
        \o (IF p THEN <<<<"-", "p">>, <<"a", " ", "b">>>> ELSE <<>>) : q \in BOOLEAN, w \in BOOLEAN, p \in BOOLEAN}
FreshCmds ==
    {<<<<"x", "a", "v">>>> \o o \o <<i>> \o out : o \in OptionArgs, i \in Inputs, out \in {<<>>, <<<<"o">>>>}}
ResumeCmds == {<<<<"x", "a", "v">>, <<"-", "r">>, i>> : i \in Inputs}
BadCmds == {<<<<"x", "a", "v">>>>, <<<<"x", "a", "v">>, <<"-", "z">>, <<"a">>>>, <<<<"x", "a", "v">>, <<"-", "q">>>>}

\* the working directory a run started as prior and ended by a failure
\* during the encode has left
LeftBy(prior) == [exists |-> TRUE, cmd_exists |-> TRUE, cmd |-> save_args(prior),
                  files |-> {"resume.json", "encode"}]

MainInit ==
    /\ HarnessPipe
    /\ appendArg = NoComp /\ appendCalls = 0
    /\ width = 0 /\ height = 0 /\ tile = <<>>
    /\ samples = <<>> /\ packed = NoBuf /\ unpacked = NoBuf
    /\ pix = NoPix
    /\ call = NoCall
    /\ \E argv \in FreshCmds \cup ResumeCmds \cup BadCmds :
       \E dirs \in {[i \in Inputs |-> NoDir]}
                     \cup {[i \in Inputs |-> IF i = get_args(prior, <<>>).input
                                               THEN LeftBy(prior) ELSE NoDir] :
                              prior \in FreshCmds} :
          app = [pc |-> "parse", argv |-> argv, args |-> EmptyArgs, dirs |-> dirs,
                 cmd0 |-> dirs, alt |-> FALSE, cursor |-> TRUE, hooks |-> FALSE,
                 last |-> "none", how |-> "running", code |-> Running]

mainUnchangedVars == <<pipeVars, probe, progVars, appendVars, tileVars, packVars, pix, call>>

\* libc exit: the atexit handler restore (lines 47-50, registered at line
\* 415) shows the cursor and leaves the alt-screen
Exit(a, how, code) ==
    [a EXCEPT !.pc = "exited", !.how = how, !.code = code,
              !.cursor = IF a.hooks THEN TRUE ELSE @,
              !.alt = IF a.hooks THEN FALSE ELSE @]

\* main lines 404-418: parse_args (print_help and exit(1) on an error),
\* then the panic hook, the atexit handler and the signal handlers
MainParse ==
    /\ app.pc = "parse"
    /\ LET r == get_args(app.argv, app.dirs)
       IN  app' = IF r.ok = "err"
                    THEN Exit([app EXCEPT !.last = "help"], "arg_err", ExitFailure)
                  ELSE IF r.ok = "panic"
                    THEN Exit([app EXCEPT !.last = "panic"], "arg_panic", ExitPanic)
                  ELSE [app EXCEPT !.pc = "enter", !.args = r, !.hooks = TRUE]
    /\ UNCHANGED mainUnchangedVars

\* main_with_args lines 304-313: enter the alt-screen and hide the cursor
\* unless quiet, then ensure_scene_file, which can fail
MainEnter ==
    /\ app.pc = "enter"
    /\ LET a == IF app.args.quiet THEN app
                ELSE [app EXCEPT !.alt = TRUE, !.cursor = FALSE]
       IN  \/ app' = [a EXCEPT !.pc = "err"]
           \/ app' = [a EXCEPT !.pc = "workdir",
                               !.last = IF app.args.quiet THEN @ ELSE "blank"]
    /\ UNCHANGED mainUnchangedVars

\* a run that saves its command line even when it resumes
ShouldSave_Always(args) == TRUE

\* main_with_args line 325
ShouldSave(args) == ~args.resume

\* a run that removes the working directory even when it resumes
RemovesOld_Always(args, old) == old.exists

\* main_with_args line 318
RemovesOld(args, old) == ~args.resume /\ old.exists

\* main_with_args lines 315-327: remove the working directory of a run
\* that is not a resume, create it, save the command line; each file
\* system call can fail
MainWorkDir ==
    /\ app.pc = "workdir"
    /\ LET k == app.args.input
           old == WorkDir(app.dirs, k)
           kept == IF RemovesOld(app.args, old) THEN NoDir ELSE old
           made == [kept EXCEPT !.exists = TRUE]
           saved == IF ShouldSave(app.args)
                      THEN [made EXCEPT !.cmd_exists = TRUE, !.cmd = save_args(app.argv)]
                      ELSE made
           put(dir) == [app.dirs EXCEPT ![k] = dir]
       IN  /\ k \in DOMAIN app.dirs
           /\ \/ app' = [app EXCEPT !.pc = "err"]
              \/ app' = [app EXCEPT !.pc = "err", !.dirs = put(kept)]
              \/ app' = [app EXCEPT !.pc = "err", !.dirs = put(made)]
              \/ app' = [app EXCEPT !.pc = "prepare", !.dirs = put(saved)]
    /\ UNCHANGED mainUnchangedVars

\* main_with_args lines 329-342: the index, the video properties, the grain
\* table and the scene list; each can fail
MainPrepare ==
    /\ app.pc = "prepare"
    /\ \/ app' = [app EXCEPT !.pc = "err"]
       \/ app' = [app EXCEPT !.pc = "encode"]
    /\ UNCHANGED mainUnchangedVars

\* main_with_args line 345: encode_all writes the chunk files and, unless
\* quiet, resume.json and the progress display; it returns, or a worker
\* calls exit(1) (proc_chunk lines 280 and 295), or a join panics the
\* foreground thread (the hook of main lines 407-412 prints the panic
\* message and the FAIL line), or the pipeline hangs
MainEncode ==
    /\ app.pc = "encode"
    /\ LET k == app.args.input
           a == [app EXCEPT !.dirs[k].files =
                                @ \cup (IF app.args.quiet THEN {"encode"}
                                                          ELSE {"encode", "resume.json"}),
                            !.last = IF app.args.quiet THEN @ ELSE "progress"]
       IN  \/ app' = [a EXCEPT !.pc = "merge"]
           \/ app' = Exit(a, "exit1", ExitFailure)
           \/ app' = Exit([a EXCEPT !.last = "FAIL"], "panic", ExitPanic)
           \/ app' = [a EXCEPT !.pc = "hung"]
    /\ UNCHANGED mainUnchangedVars

\* main_with_args lines 348-351: merge_out, which can fail, then show the
\* cursor and leave the alt-screen
MainMerge ==
    /\ app.pc = "merge"
    /\ \/ app' = [app EXCEPT !.pc = "err"]
       \/ app' = [app EXCEPT !.pc = "finish", !.cursor = TRUE, !.alt = FALSE]
    /\ UNCHANGED mainUnchangedVars

\* main_with_args lines 353-400: the sizes (metadata can fail), the summary
\* box, then the removal of the working directory (which can fail)
MainFinish ==
    /\ app.pc = "finish"
    /\ \/ app' = [app EXCEPT !.pc = "err"]
       \/ app' = [app EXCEPT !.pc = "err", !.last = "summary"]
       \/ app' = Exit([app EXCEPT !.last = "summary",
                                  !.dirs[app.args.input] = NoDir], "ok", 0)
    /\ UNCHANGED mainUnchangedVars

\* main lines 420-425: main_with_args returned an error: leave the
\* alt-screen, print the FAIL line, return the error; the runtime then
\* prints "Error: ..." and exits with status 1
MainFail ==
    /\ app.pc = "err"
    /\ app' = Exit([app EXCEPT !.alt = FALSE, !.last = "Error"], "err", ExitFailure)
    /\ UNCHANGED mainUnchangedVars

\* exit_restore, lines 51-54: SIGINT or SIGSEGV while the handlers are set
MainSignal ==
    /\ app.pc \in {"enter", "workdir", "prepare", "encode", "merge", "finish", "err", "hung"}
    /\ app' = Exit(app, "signal", ExitSignal)
    /\ UNCHANGED mainUnchangedVars

MainNext ==
    \/ MainParse
    \/ MainEnter
    \/ MainWorkDir
    \/ MainPrepare
    \/ MainEncode
    \/ MainMerge
    \/ MainFinish
    \/ MainFail
    \/ MainSignal

SpecMain == MainInit /\ [][MainNext]_vars

(***************************************************************************)
(* get_chroma_loc (ffms.rs lines 206-238) applied to the chroma location   *)
(* of the first frame (an AVChromaLocation: 0 unspecified, 1 left,         *)
(* 2 center, 3 topleft, ...) and to what ffprobe prints.                   *)
(***************************************************************************)
\* Option<i32>::None
NoneLoc == 0 - 1

\* str::starts_with
StartsWith(text, prefix) ==
    /\ Len(text) >= Len(prefix)
    /\ SubSeq(text, 1, Len(prefix)) = prefix

\* what ffprobe prints on stdout for each chroma location of the stream
\* (nothing when the stream has none)
ProbeTexts ==
    {<<>>,
     <<"c", "h", "r", "o", "m", "a", "_", "l", "o", "c", "a", "t", "i", "o", "n", "=", "l", "e", "f", "t">> \o <<"\n">>,
     <<"c", "h", "r", "o", "m", "a", "_", "l", "o", "c", "a", "t", "i", "o", "n", "=", "t", "o", "p", "l", "e", "f", "t">> \o <<"\n">>,
     <<"c", "h", "r", "o", "m", "a", "_", "l", "o", "c", "a", "t", "i", "o", "n", "=", "c", "e", "n", "t", "e", "r">> \o <<"\n">>,
     <<"c", "h", "r", "o", "m", "a", "_", "l", "o", "c", "a", "t", "i", "o", "n", "=", "t", "o", "p">> \o <<"\n">>,
     <<"c", "h", "r", "o", "m", "a", "_", "l", "o", "c", "a", "t", "i", "o", "n", "=", "b", "o", "t", "t", "o", "m", "l", "e", "f", "t">> \o <<"\n">>,
     <<"c", "h", "r", "o", "m", "a", "_", "l", "o", "c", "a", "t", "i", "o", "n", "=", "b", "o", "t", "t", "o", "m">> \o <<"\n">>,
     <<"c", "h", "r", "o", "m", "a", "_", "l", "o", "c", "a", "t", "i", "o", "n", "=", "u", "n", "s", "p", "e", "c", "i", "f", "i", "e", "d">> \o <<"\n">>}

\* lines 207-231: the value of ffprobe (ran: the command could be run),
\* or else the frame's value unless it is 0
ffmpeg_value(ran, text, frame_chroma) ==
    IF ran /\ StartsWith(text, <<"c", "h", "r", "o", "m", "a", "_", "l", "o", "c", "a", "t", "i", "o", "n", "=", "l", "e", "f", "t">>) THEN 1
    ELSE IF ran /\ StartsWith(text, <<"c", "h", "r", "o", "m", "a", "_", "l", "o", "c", "a", "t", "i", "o", "n", "=", "t", "o", "p", "l", "e", "f", "t">>) THEN 3
    ELSE IF frame_chroma # 0 THEN frame_chroma
    ELSE NoneLoc

\* get_chroma_loc, lines 206-238
get_chroma_loc(ran, text, frame_chroma) ==
    LET v == ffmpeg_value(ran, text, frame_chroma)
    IN  IF v = 1 THEN 1
        ELSE IF v = 3 THEN 2
        ELSE NoneLoc

ChromaInit ==
    /\ HarnessPipe
    /\ appendArg = NoComp /\ appendCalls = 0
    /\ width = 0 /\ height = 0 /\ tile = <<>>
    /\ samples = <<>> /\ packed = NoBuf /\ unpacked = NoBuf
    /\ pix = NoPix
    /\ app = NoApp
    /\ \E ran \in BOOLEAN, text \in ProbeTexts, frame_chroma \in 0..MaxChromaLoc :
          call = [pc |-> "chroma", ran |-> ran, text |-> text,
                  frame_chroma |-> frame_chroma, out |-> NoneLoc]

callUnchanged == <<pipeVars, probe, progVars, appendVars, tileVars, packVars, pix, app>>

\* get_vidinf, line 278
ChromaCall ==
    /\ call.pc = "chroma"
    /\ call' = [call EXCEPT !.pc = "chroma_done",
                            !.out = get_chroma_loc(call.ran, call.text, call.frame_chroma)]
    /\ UNCHANGED callUnchanged

ChromaNext == ChromaCall

SpecChroma == ChromaInit /\ [][ChromaNext]_vars

(***************************************************************************)
(* make_enc_cmd and colorize (svt.rs lines 54-144): the argument list of   *)
(* the encoder command.  An argument is a string; the user parameter       *)
(* string is a sequence of characters; an Option is a sequence of at most  *)
(* one element; the CRF (an f32) is counted in hundredths.                 *)
(***************************************************************************)
\* the characters str::split_whitespace splits on
Whitespace == {" ", "\t", "\n"}

\* str::split_whitespace: the words of the characters from position k on,
\* after the words found so far and the word being read
RECURSIVE SplitFrom(_, _, _, _)
SplitFrom(text, k, words, word) ==
    IF k > Len(text)
      THEN (IF word = "" THEN words ELSE Append(words, word))
    ELSE IF text[k] \in Whitespace
      THEN SplitFrom(text, k + 1, IF word = "" THEN words ELSE Append(words, word), "")
    ELSE SplitFrom(text, k + 1, words, word \o text[k])

split_whitespace(text) == SplitFrom(text, 1, <<>>, "")

\* format!("{:.2}", crf) for a crf of c hundredths, c >= 0
CrfStr(c) ==
    ToString(c \div 100) \o "." \o ToString((c % 100) \div 10) \o ToString(c % 10)

\* a command that takes a CRF of 0 for no CRF
HasCrf_Positive(crf) == crf > 0

\* make_enc_cmd line 94
HasCrf(crf) == crf >= 0

\* one optional colour flag of colorize
OptFlag(name, opt) == IF opt = <<>> THEN <<>> ELSE <<name, opt[1]>>

\* colorize, lines 122-144
colorize(inf) ==
    OptFlag("--color-primaries", inf.color_primaries)
        \o OptFlag("--transfer-characteristics", inf.transfer_characteristics)
        \o OptFlag("--matrix-coefficients", inf.matrix_coefficients)
        \o OptFlag("--color-range", inf.color_range)
        \o OptFlag("--chroma-sample-position", inf.chroma_sample_position)
        \o OptFlag("--mastering-display", inf.mastering_display)
        \o OptFlag("--content-light", inf.content_light)

\* base_args, lines 62-88
base_args(inf, q) ==
    <<"-i", "stdin", "--input-depth", "10",
      "--width", ToString(inf.width), "--forced-max-frame-width", ToString(inf.width),
      "--height", ToString(inf.height), "--forced-max-frame-height", ToString(inf.height),
      "--fps-num", ToString(inf.fps_num), "--fps-denom", ToString(inf.fps_den),
      "--keyint", "-1", "--rc", "0", "--scd", "0", "--scm", "0",
      "--progress", IF q THEN "0" ELSE "3">>

\* make_enc_cmd, lines 54-120: the arguments of the command in order
make_enc_cmd(cfg, q) ==
    LET tiles == get_tile_params(cfg.inf.width, cfg.inf.height)
    IN  base_args(cfg.inf, q)
            \o (IF HasCrf(cfg.crf) THEN <<"--crf", CrfStr(cfg.crf)>> ELSE <<>>)
            \o colorize(cfg.inf)
            \o <<"--tile-columns", tiles[1], "--tile-rows", tiles[2]>>
            \o OptFlag("--fgs-table", cfg.grain_table)
            \o (IF q THEN <<"--no-progress", "1">> ELSE <<>>)
            \o split_whitespace(cfg.params)
            \o <<"-b", cfg.output>>

\* the video properties of the model: the colour metadata is absent,
\* complete, or has the primaries and the chroma sample position only
ColorSets ==
    {[color_primaries |-> <<>>, transfer_characteristics |-> <<>>,
      matrix_coefficients |-> <<>>, color_range |-> <<>>,
      chroma_sample_position |-> <<>>, mastering_display |-> <<>>,
      content_light |-> <<>>],
     [color_primaries |-> <<"9">>, transfer_characteristics |-> <<"16">>,
      matrix_coefficients |-> <<"9">>, color_range |-> <<"0">>,
      chroma_sample_position |-> <<"2">>, mastering_display |-> <<"G(0.2,0.7)">>,
      content_light |-> <<"1000,400">>],
     [color_primaries |-> <<"1">>, transfer_characteristics |-> <<>>,
      matrix_coefficients |-> <<>>, color_range |-> <<>>,
      chroma_sample_position |-> <<"1">>, mastering_display |-> <<>>,
      content_light |-> <<>>]}

\* the user parameter strings of the model with their words
ParamCases ==
    {[text |-> <<>>, words |-> <<>>],
     [text |-> <<"-", "-", "p", "r", "e", "s", "e", "t", " ", "4">>, words |-> <<"--preset", "4">>],
     [text |-> <<" ", " ", "-", "-", "p", "r", "e", "s", "e", "t">> \o <<"\t">> \o <<" ", "4", " ">>, words |-> <<"--preset", "4">>],
     [text |-> <<"-", "-", "c", "r", "f", " ", "3", "0">>, words |-> <<"--crf", "30">>],
     [text |-> <<"-", "b", " ", "x", " ", "-", "-", "n", "o", "-", "p", "r", "o", "g", "r", "e", "s", "s", " ", "1">>, words |-> <<"-b", "x", "--no-progress", "1">>]}

\* the CRF: -1.0 (none supplied, proc_chunk line 276), 0.0, 25.5
CrfCases == {0 - 100, 0, 2550}

CmdInit ==
    /\ HarnessPipe
    /\ appendArg = NoComp /\ appendCalls = 0
    /\ width = 0 /\ height = 0 /\ tile = <<>>
    /\ samples = <<>> /\ packed = NoBuf /\ unpacked = NoBuf
    /\ pix = NoPix
    /\ app = NoApp
    /\ \E w \in {1920, 3840}, h \in {1080, 2160}, col \in ColorSets, crf \in CrfCases,
          grain \in {<<>>, <<"grain.tbl">>}, q \in BOOLEAN, par \in ParamCases :
          call = [pc |-> "cmd",
                  cfg |-> [inf |-> [width |-> w, height |-> h, fps_num |-> 24000,
                                    fps_den |-> 1001] @@ col,
                           params |-> par.text, crf |-> crf, output |-> "0000.ivf",
                           grain_table |-> grain],
                  quiet |-> q, words |-> par.words, out |-> <<>>]

\* proc_chunk line 280, encode_single_probe line 473
CmdCall ==
    /\ call.pc = "cmd"
    /\ call' = [call EXCEPT !.pc = "cmd_done", !.out = make_enc_cmd(call.cfg, call.quiet)]
    /\ UNCHANGED callUnchanged

CmdNext == CmdCall

SpecCmd == CmdInit /\ [][CmdNext]_vars

(***************************************************************************)
(* The pipeline under fair scheduling: a thread that can take a step       *)
(* eventually takes one, and an encoder child whose stdin has been closed  *)
(* eventually exits.                                                       *)
(***************************************************************************)
LiveFair ==
    /\ WF_vars(DecStart \/ DecFrame \/ DecSend \/ DecSent)
    /\ \A w \in Workers :
          WF_vars(Recv(w) \/ RecvClosed(w) \/ Spawn(w) \/ WaitChild(w) \/ Record(w))
    /\ WF_vars(\E k \in 1..Len(children) : ChildExit(k))
    /\ WF_vars(JoinDecoder \/ JoinWorker)

SpecLive == Init /\ [][Next]_vars /\ LiveFair

(***************************************************************************)
(* The frame counter of one encoder child (progs.rs lines 184-266): the    *)
(* watcher of chunk 0 reads the stderr lines of its child one by one,      *)
(* with no other watcher running.  A line is a sequence of characters;     *)
(* "^" stands for the escape character of the colour codes.                *)
(***************************************************************************)
\* str::find: the first position of pat in text (0: none)
Find(text, pat) ==
    LET hits == {k \in 1..(Len(text) - Len(pat) + 1) :
                    SubSeq(text, k, k + Len(pat) - 1) = pat}
    IN  IF hits = {} THEN 0 ELSE CHOOSE k \in hits : \A m \in hits : k <= m

\* the decimal digit d as a character
DigitChar(d) ==
    CASE d = 0 -> "0" [] d = 1 -> "1" [] d = 2 -> "2" [] d = 3 -> "3" [] d = 4 -> "4"
      [] d = 5 -> "5" [] d = 6 -> "6" [] d = 7 -> "7" [] d = 8 -> "8" [] d = 9 -> "9"

\* get_frame_cnt lines 220-227: move start back over digits and slashes
RECURSIVE ScanBack(_, _)
ScanBack(line, start) ==
    IF start > 0 /\ line[start] \in {"0", "1", "2", "3", "4", "5", "6", "7", "8", "9", "/"}
      THEN ScanBack(line, start - 1)
      ELSE start

\* get_frame_cnt, lines 216-233 (NoFrames: None)
get_frame_cnt(line) ==
    LET frames_pos == Find(line, <<" ", "F", "r", "a", "m", "e", "s">>)
        num_part == SubSeq(line, ScanBack(line, frames_pos - 1) + 1, frames_pos - 1)
        slash == Find(num_part, <<"/">>)
        first_num == IF slash = 0 THEN num_part ELSE SubSeq(num_part, 1, slash - 1)
    IN  IF frames_pos = 0 THEN NoFrames
        ELSE IF ParseUsize(first_num) = NoNum THEN NoFrames
        ELSE ParseUsize(first_num)

\* an up_line that takes every line for the first line of its chunk
PrevFrames_Zero(map, chunk_idx) == 0

\* up_line lines 245-246: the frame count of the line stored for the chunk
PrevFrames(map, chunk_idx) ==
    IF chunk_idx \notin DOMAIN map THEN 0
    ELSE IF get_frame_cnt(map[chunk_idx]) = NoFrames THEN 0
    ELSE get_frame_cnt(map[chunk_idx])

\* up_line, lines 235-266, with track_frames = true and crf_score = None
\* (proc_chunk line 287), on the line map and the counter given: the new
\* map and the new counter
up_line_text(map, count, chunk_idx, line) ==
    LET prev_frames == PrevFrames(map, chunk_idx)
        cleaned == IF StartsWith(line, <<"E", "n", "c", "o", "d", "i", "n", "g", ":", " ">>)
                     THEN SubSeq(line, Len(<<"E", "n", "c", "o", "d", "i", "n", "g", ":", " ">>) + 1, Len(line)) ELSE line
        idx04 == <<DigitChar((chunk_idx \div 1000) % 10), DigitChar((chunk_idx \div 100) % 10),
                   DigitChar((chunk_idx \div 10) % 10), DigitChar(chunk_idx % 10)>>
        prefix == <<"^", "[", "1", ";", "9", "6", "m", "[">> \o idx04 \o <<"^", "[", "1", ";", "9", "6", "m", "]">>
        current == get_frame_cnt(line)
    IN  [map |-> MapInsert(map, chunk_idx, prefix \o <<" ">> \o cleaned),
         count |-> IF current # NoFrames
                     THEN count + FrameDiff(current, prev_frames) ELSE count]

\* a progress line of the encoder reporting n frames, plain and padded
ProgressLine(n, padded) ==
    <<"E", "n", "c", "o", "d", "i", "n", "g", ":", " ">> \o (IF padded THEN <<" ", " ">> ELSE <<>>) \o <<DigitChar(n)>>
        \o <<"/", "9", " ", "F", "r", "a", "m", "e", "s", " ", "@", " ", "2", "4", ".", "1", "0", " ", "f", "p", "s", " ", "|", " ", "5", "1", "2", " ", "k", "b", "p", "s">>

\* the stderr lines of the model: kind "progress" reports n frames
LineCases ==
    {[kind |-> "progress", n |-> n, text |-> ProgressLine(n, p)] :
        n \in 0..MaxLineFrames, p \in BOOLEAN}
      \cup {[kind |-> "summary", n |-> 0, text |-> <<"S", "U", "M", "M", "A", "R", "Y", " ", "E", "n", "c", "o", "d", "i", "n", "g", ":", " ", "9", "/", "9", " ", "F", "r", "a", "m", "e", "s">>],
            [kind |-> "info", n |-> 0, text |-> <<"S", "v", "t", "[", "i", "n", "f", "o", "]", ":", " ", "9", " ", "F", "r", "a", "m", "e", "s">>],
            [kind |-> "info", n |-> 0, text |-> <<"e", "r", "r", "o", "r", ":", " ", "9", "/", "9", " ", "F", "r", "a", "m", "e", "s">>]}

RECURSIVE SeqsUpTo(_, _)
SeqsUpTo(S, n) ==
    IF n = 0 THEN {<<>>}
    ELSE LET shorter == SeqsUpTo(S, n - 1)
         IN  shorter \cup {Append(sq, x) : sq \in shorter, x \in S}

CountInit ==
    /\ HarnessPipe
    /\ appendArg = NoComp /\ appendCalls = 0
    /\ width = 0 /\ height = 0 /\ tile = <<>>
    /\ samples = <<>> /\ packed = NoBuf /\ unpacked = NoBuf
    /\ pix = NoPix
    /\ app = NoApp
    /\ \E input \in SeqsUpTo(LineCases, MaxReads), base \in {0, FrameCount} :
          call = [pc |-> "watch", chunk_idx |-> 0, input |-> input, pos |-> 0,
                  map |-> <<>>, base |-> base, processed |-> base]

\* watch_enc lines 184-209: read the next line; a line with "Encoding:"
\* and without "SUMMARY" goes through up_line
CountLine ==
    /\ call.pc = "watch" /\ call.pos < Len(call.input)
    /\ LET line == call.input[call.pos + 1].text
           up == up_line_text(call.map, call.processed, call.chunk_idx, line)
       IN  IF Find(line, <<"E", "n", "c", "o", "d", "i", "n", "g", ":">>) = 0 \/ Find(line, <<"S", "U", "M", "M", "A", "R", "Y">>) # 0
             THEN call' = [call EXCEPT !.pos = @ + 1]
             ELSE call' = [call EXCEPT !.pos = @ + 1, !.map = up.map,
                                       !.processed = up.count]
    /\ UNCHANGED callUnchanged

\* watch_enc lines 186-189 and 211-212: end of file; the watcher removes the
\* line of its chunk and ends
CountEof ==
    /\ call.pc = "watch" /\ call.pos = Len(call.input)
    /\ call' = [call EXCEPT !.pc = "watch_done", !.map = MapRemove(@, call.chunk_idx)]
    /\ UNCHANGED callUnchanged

CountNext == CountLine \/ CountEof

SpecCount == CountInit /\ [][CountNext]_vars

(***************************************************************************)
(* The saved command line (main.rs lines 247-294): save_args writes an     *)
(* argument vector, parse_quoted_args reads the text back.                 *)
(***************************************************************************)
\* the arguments of the model; none has a double quote
ArgCases == {<<"x", "a", "v">>, <<"-", "p">>, <<"a", " ", "b">>, <<" ">>, <<"-", "-", "l", "p">> \o <<"\t">> \o <<"3">>, <<>>}

ArgsInit ==
    /\ HarnessPipe
    /\ appendArg = NoComp /\ appendCalls = 0
    /\ width = 0 /\ height = 0 /\ tile = <<>>
    /\ samples = <<>> /\ packed = NoBuf /\ unpacked = NoBuf
    /\ pix = NoPix
    /\ app = NoApp
    /\ \E argv \in SeqsUpTo(ArgCases, MaxArgs) :
          call = [pc |-> "save", argv |-> argv, text |-> <<>>, out |-> <<>>]

\* main_with_args line 326: save_args writes cmd.txt
ArgsSave ==
    /\ call.pc = "save"
    /\ call' = [call EXCEPT !.pc = "saved", !.text = save_args(call.argv)]
    /\ UNCHANGED callUnchanged

\* get_saved_args lines 264-266: read cmd.txt, parse_quoted_args
ArgsParse ==
    /\ call.pc = "saved"
    /\ call' = [call EXCEPT !.pc = "parsed", !.out = parse_quoted_args(call.text)]
    /\ UNCHANGED callUnchanged

ArgsNext == ArgsSave \/ ArgsParse

SpecArgs == ArgsInit /\ [][ArgsNext]_vars

(***************************************************************************)
(* Properties.                                                             *)
(***************************************************************************)
Range(sq) == {sq[p] : p \in 1..Len(sq)}
Count(sq, x) == Cardinality({p \in 1..Len(sq) : sq[p] = x})
ChildIds == 1..Len(children)
ChildrenOf(i) == {k \in ChildIds : children[k].idx = i}
RunningChildren == {k \in ChildIds : children[k].st = "running"}
Encoded(i) == \E k \in ChildrenOf(i) : children[k].st = "exit0" /\ children[k].reaped
AllFailed(c) == \A f \in FramesOf(c) : extrRes[f] = "err"
SomeOk(c) == \E f \in FramesOf(c) : extrRes[f] = "ok"

\* C1: at every instant at most NumWorkers encoder children are running;
\* every running child belongs to a worker that is blocked in wait for it
\* (so a worker at recv has no child left), and there are never more
\* children than ChunkData received.
C1_Backpressure ==
    /\ Cardinality(RunningChildren) <= NumWorkers
    /\ \A k \in RunningChildren :
          /\ children[k].owner \in Workers
          /\ wPc[children[k].owner] = "wait"
          /\ wChild[children[k].owner] = k
    /\ Len(children) <= Len(recvLog)

C1_Witness ==
    /\ Cardinality(RunningChildren) = NumWorkers
    /\ Len(children) > NumWorkers

\* C2: in a resume run no frame of a chunk recorded in the loaded ResumeInf
\* is extracted, no ChunkData with its idx is sent and no encoder child is
\* spawned for it.
C2_SkipSet ==
    resume =>
        \A i \in Idxs(resume_data) :
            /\ \A f \in FramesOf(ChunkOf(i)) : extrRes[f] = "none"
            /\ i \notin Range(sentLog)
            /\ ChildrenOf(i) = {}

C2_Witness ==
    /\ resume /\ Idxs(resume_data) # {}
    /\ decPc = "done" /\ sentLog # <<>>
    /\ \E i \in ChunkIdx \ Idxs(resume_data) : Encoded(i)

\* C3: every ChunkData sent is received exactly once (it is either the
\* pending send or in the receive log once, never twice), nothing is
\* received that was not sent, and no chunk idx has two encoder children.
C3_ExactlyOnce ==
    /\ \A i \in Range(recvLog) : Count(recvLog, i) = 1 /\ i \in Range(sentLog)
    /\ \A p \in 1..Len(sentLog) :
          \/ Count(recvLog, sentLog[p]) = 1
          \/ p = Len(sentLog) /\ decPc = "send" /\ offer.idx = sentLog[p]
    /\ \A w \in Workers : wData[w] # NoData => Count(recvLog, wData[w].idx) = 1
    /\ \A i \in ChunkIdx : Cardinality(ChildrenOf(i)) <= 1

C3_Witness ==
    /\ Len(recvLog) = Len(sentLog) /\ Len(sentLog) >= 3
    /\ \A w \in Workers : wData[w] # NoData

\* C4: the chunk idx values sent are strictly increasing, and the workers
\* receive in the order sent.
C4_Ordering ==
    /\ \A p, q \in 1..Len(sentLog) : p < q => sentLog[p] < sentLog[q]
    /\ Len(recvLog) <= Len(sentLog)
    /\ recvLog = SubSeq(sentLog, 1, Len(recvLog))

\* a later chunk is done while an earlier one is still being encoded
C4_Witness ==
    /\ Len(recvLog) >= 3
    /\ \E j, k \in ChildIds :
          /\ children[j].idx < children[k].idx
          /\ children[j].st = "running"
          /\ children[k].handled

\* C5 as claimed: after encode_all has returned from a run that is not a
\* resume, every chunk idx has an encoder child that exited successfully.
C5_AllChunksEncoded ==
    (mainPc = "returned" /\ ~resume) => \A i \in ChunkIdx : Encoded(i)

\* C5 as amended: after encode_all has returned from a run that is not a
\* resume, exactly the chunks with at least one successfully extracted
\* frame have an encoder child, and that child exited successfully.
C5_ExtractedChunksEncoded ==
    (mainPc = "returned" /\ ~resume) =>
        \A i \in ChunkIdx :
            /\ SomeOk(ChunkOf(i)) => Encoded(i)
            /\ ~SomeOk(ChunkOf(i)) => ChildrenOf(i) = {}

C5_Witness ==
    /\ mainPc = "returned" /\ ~resume
    /\ Len(chunks) >= 3
    /\ \E i \in ChunkIdx : Encoded(i)
    /\ \E i \in ChunkIdx : AllFailed(ChunkOf(i))

\* the frames of chunk c that were extracted successfully, in frame order
RECURSIVE OkFrames(_, _)
OkFrames(lo, hi) ==
    IF lo >= hi THEN <<>>
    ELSE (IF extrRes[lo] = "ok" THEN <<Extracted(lo)>> ELSE <<>>) \o OkFrames(lo + 1, hi)

\* C6 as claimed: the frames of a ChunkData, pending or held by a worker,
\* are exactly the successfully extracted frames of its chunk, in order.
C6_SentFramesAreExtractedFrames ==
    /\ offer # NoData =>
          offer.frames = OkFrames(ChunkOf(offer.idx).start, ChunkOf(offer.idx).end)
    /\ \A w \in Workers :
          wData[w] # NoData =>
              wData[w].frames =
                  OkFrames(ChunkOf(wData[w].idx).start, ChunkOf(wData[w].idx).end)

\* C7: an extraction failure does not stop the decoder (when it returns
\* with an opened session every frame of every chunk outside the skip set
\* has been requested), and a chunk whose frames all failed has no
\* ChunkData, no encoder child and no ChunkCompletion.
C7_FailureSwallowed ==
    /\ (decPc = "done" /\ source = "destroyed") =>
          \A i \in ChunkIdx \ skip_indices :
              \A f \in FramesOf(ChunkOf(i)) : extrRes[f] # "none"
    /\ \A i \in ChunkIdx \ skip_indices :
          AllFailed(ChunkOf(i)) =>
              /\ i \notin Range(sentLog)
              /\ ChildrenOf(i) = {}
              /\ i \notin Idxs(chnks_done)
              /\ i \notin Idxs(disk)

C7_Witness ==
    /\ decPc = "done" /\ source = "destroyed"
    /\ \E i, j \in ChunkIdx :
          /\ i < j
          /\ AllFailed(ChunkOf(i))
          /\ Encoded(j)
    /\ \E i \in ChunkIdx :
          /\ i \in Range(sentLog)
          /\ \E f \in FramesOf(ChunkOf(i)) : extrRes[f] = "err"

\* the children a worker has finished with (it has looped back to recv)
Handled == {k \in ChildIds : children[k].handled}

\* C8: a chunk whose encoder child exited with a non-zero status gets no
\* ChunkCompletion, in memory or in resume.json, and no counter update:
\* the wait for it ends the process with exit code 1, and the counter of
\* completed chunks counts only successfully encoded chunks.
C8_NoCompletionOnFailure ==
    /\ \A k \in ChildIds :
          children[k].st = "exitN" =>
              /\ ~children[k].handled
              /\ children[k].idx \notin Idxs(chnks_done)
              /\ children[k].idx \notin Idxs(disk)
              /\ children[k].reaped => exitCode = ExitFailure
    /\ \A k \in Handled : children[k].st = "exit0"
    /\ completed = IF quiet THEN 0 ELSE completed_count + Cardinality(Handled)

C8_Witness ==
    /\ ~quiet
    /\ Len(chnks_done) > Len(resume_data)
    /\ \E k \in ChildIds : children[k].st = "exitN" /\ children[k].reaped
    /\ exitCode = ExitFailure

\* C9 as claimed: a non-zero exit status of any encoder child the driver
\* has waited for, final encode or probe, ends the process with exit code 1
\* and the chunk or probe is not taken as encoded.
C9_NonZeroExitFatal ==
    /\ \A k \in ChildIds :
          (children[k].st = "exitN" /\ children[k].reaped) =>
              exitCode = ExitFailure /\ ~children[k].handled
    /\ (probe.child = "exitN" /\ probe.pc \notin {"spawn", "wait"}) =>
          exitCode = ExitFailure /\ probe.pc # "returned"

\* C10 as claimed: in every run mode, once a worker is done with a chunk
\* whose encoder child exited successfully and left an output file, the
\* chunk's ChunkCompletion is in the ResumeInf and, unless a save failed,
\* in resume.json.
C10_CompletionRecorded ==
    \A k \in Handled :
        (children[k].st = "exit0" /\ children[k].meta = "some") =>
            /\ children[k].idx \in Idxs(chnks_done)
            /\ ~saveFailed => children[k].idx \in Idxs(disk)

\* the number of records of rs with chunk idx i
CountIdx(rs, i) == Cardinality({p \in 1..Len(rs) : rs[p].idx = i})

\* C11: in every reachable state of a run, fresh or resumed from a
\* ResumeInf with distinct idx values, the in-memory ResumeInf holds at most
\* one ChunkComp per chunk idx, and so does resume.json.
C11_UniqueIdx ==
    /\ \A i \in ChunkIdx : CountIdx(chnks_done, i) <= 1
    /\ \A i \in ChunkIdx : CountIdx(disk, i) <= 1

C11_Witness ==
    /\ resume /\ ~quiet
    /\ resume_data # <<>>
    /\ Len(chnks_done) = Len(chunks)
    /\ Len(chnks_done) >= Len(resume_data) + 2

\* C12 as claimed: after add_completion has been called twice with the same
\* ChunkComp, the ResumeInf holds at most one record with its idx.
C12_AppendIdempotent ==
    appendCalls >= 2 => CountIdx(chnks_done, appendArg.idx) <= 1

\* C13 as claimed: whenever the ResumeInf mutex is free (add_completion
\* takes and releases it within one step), the records of resume.json are
\* exactly the records of the in-memory ResumeInf.
C13_DiskEqualsMemory ==
    HasStats => disk = chnks_done

\* the chunks whose encoder child has exited successfully and whose
\* ChunkComp is not in resume.json (a child whose output file could not be
\* read never gets a ChunkComp and is left out)
Unrecorded ==
    {k \in ChildIds : /\ children[k].st = "exit0"
                      /\ children[k].meta # "missing"
                      /\ children[k].idx \notin Idxs(disk)}

\* C14 as claimed: in a run that records completions and in which no save
\* has failed, at most one chunk at a time has a successfully exited
\* encoder child and no ChunkComp in resume.json.
C14_AtMostOneLost ==
    (HasStats /\ ~saveFailed) => Cardinality(Unrecorded) <= 1

\* the mutexes a thread holds
Held(t) == {m \in Mutexes : mutex[m] = t}

\* the mutex a watcher thread or the foreground thread is about to lock
\* (a watcher at "read" locks the line map in up_line or before remove)
Requested(t) ==
    CASE uiPc[t] = "sp_display" -> {"display"}
      [] uiPc[t] = "sp_comp" -> {"completions"}
      [] uiPc[t] = "sp_lines" -> {"lines"}
      [] uiPc[t] = "read" -> {"lines"}
      [] OTHER -> {}

\* the mutexes the owner of mutex m is about to lock (a worker that holds
\* the ResumeInf locks nothing before it unlocks it)
OwnerRequests(m) ==
    IF mutex[m] \in DOMAIN uiPc THEN Requested(mutex[m]) ELSE {}

\* C15: no thread requests the display mutex while it holds the line-map
\* mutex or the ResumeInf mutex (a worker, which locks the ResumeInf, holds
\* nothing else), and no owners of mutexes wait for each other in a cycle.
C15_LockOrder ==
    /\ \A t \in DOMAIN uiPc :
          "display" \in Requested(t) => Held(t) \cap {"lines", "completions"} = {}
    /\ \A t \in DOMAIN uiPc :
          Held(t) # {} => Held(t) \in {{"display"}, {"display", "lines"}}
    /\ \A k \in DOMAIN encPc : Held(WorkerThread(k)) \subseteq {"completions"}
    /\ \A m1, m2, m3 \in Mutexes :
          /\ m1 \notin OwnerRequests(m1)
          /\ ~(m2 \in OwnerRequests(m1) /\ m1 \in OwnerRequests(m2))
          /\ ~(/\ m2 \in OwnerRequests(m1)
               /\ m3 \in OwnerRequests(m2)
               /\ m1 \in OwnerRequests(m3))

\* a thread that holds the display mutex waits for the ResumeInf, which a
\* worker holds, while another thread, whose line is in the map too, waits
\* for the display mutex
C15_Witness ==
    \E t, u \in DOMAIN uiPc :
        /\ t # u
        /\ uiPc[t] = "sp_comp" /\ mutex["display"] = t
        /\ \E k \in DOMAIN encPc : mutex["completions"] = WorkerThread(k)
        /\ uiPc[u] = "sp_display"
        /\ DOMAIN lines = {t, u}

\* the threads that are writing to the terminal
Writing == {t \in DOMAIN uiPc : uiPc[t] \in {"err_write", "sp_render"}}

\* C16 as claimed: every thread that writes to the terminal holds the
\* display mutex, so no two threads write at once.
C16_TerminalSerialized ==
    /\ \A t \in Writing : mutex["display"] = t
    /\ Cardinality(Writing) <= 1

\* C17 as claimed: every render writes the same number of rows of worker
\* lines, worker_cnt + 1 (the lines of the map and the blank rows).
C17_ConstantRows ==
    \A t \in DOMAIN uiPc : uiPc[t] = "sp_render" => RenderRows = worker_cnt + 1

\* C18: no step decreases the frames-processed counter.
C18_ProcessedMonotonic ==
    [][processed' >= processed]_vars

\* the only watcher so far has read a line with MaxLineFrames frames and
\* then a line with fewer: the counter has kept the larger count
C18_Witness ==
    /\ nextIdx = 1 /\ nRead = 2
    /\ uiPc[0] = "sp_display"
    /\ 0 \in DOMAIN lines /\ lines[0] = 1
    /\ processed = MaxLineFrames

\* C19: for every width # height, get_tile_params returns the tabulated
\* (tile_cols, tile_rows): (0,0) up to a long edge of 1080; (1,0) landscape
\* and (0,1) portrait for 1081..2160; (2,0) landscape and (0,2) portrait
\* above 2160.
C19_TileTable ==
    (tile # <<>> /\ width # height) =>
        LET long == IF width > height THEN width ELSE height
            portrait == height > width
        IN  /\ long <= 1080 => tile = <<"0", "0">>
            /\ (long \in 1081..2160 /\ ~portrait) => tile = <<"1", "0">>
            /\ (long \in 1081..2160 /\ portrait) => tile = <<"0", "1">>
            /\ (long > 2160 /\ ~portrait) => tile = <<"2", "0">>
            /\ (long > 2160 /\ portrait) => tile = <<"0", "2">>

\* the portrait frame 1080 x 1920
C19_Witness ==
    width = 1080 /\ height = 1920 /\ tile = <<"0", "1">>

\* C20: after unpack_10bit(pack_10bit(S)), every complete group of 4
\* samples of S is back in the output buffer as little-endian 16-bit words.
C20_RoundTrip ==
    unpacked.st = "unpacked" =>
        \A g \in 0..(Len(samples) \div 4 - 1) :
            Slice(unpacked.buf, g * 8, 8) = WordBytes(SubSeq(samples, g * 4 + 1, g * 4 + 4))

\* a group with all four bit patterns, followed by a trailing sample
C20_Witness ==
    /\ unpacked.st = "unpacked"
    /\ Len(samples) = 5
    /\ SubSeq(samples, 1, 4) = <<1023, 341, 682, 1023>>
    /\ SubSeq(packed.buf, 1, 5) = <<255, 87, 165, 234, 255>>

\* C21 as claimed: pack_10bit, called by dec_10bit with a frame buffer of
\* calc_10bit_size bytes and a pool buffer of calc_packed_size bytes, writes
\* nothing outside the pool buffer, for every frame size.
C21_PackInBounds ==
    pix.oob = 0 /\ pix.pc # "aborted"

\* the planar 10-bit frame the claim expects on stdin for source frame f:
\* every sample of the extracted frame as a little-endian 16-bit word (for
\* an 8-bit source, every byte times 4)
ExpectedP10(f) ==
    IF is_10bit
      THEN extr_10bit(f, Zeros(calc_10bit_size))
      ELSE LET p8 == extr_8bit(f, Zeros(calc_8bit_size))
           IN  [j \in 1..calc_10bit_size |->
                   IF j % 2 = 1 THEN (p8[(j + 1) \div 2] * 4) % 256
                                ELSE (p8[j \div 2] * 4) \div 256]

\* C22 as claimed: the bytes written to the child's stdin are, frame after
\* frame with nothing in between, the planar 10-bit frames of the chunk,
\* calc_10bit_size bytes each.
C22_StdinFrames ==
    pix.pc = "write" =>
        /\ Len(pix.stdin) = pix.written * calc_10bit_size
        /\ \A k \in 1..pix.written :
              Slice(pix.stdin, (k - 1) * calc_10bit_size, calc_10bit_size)
                  = ExpectedP10(pix.src[k])

\* C23: every byte b that conv_to_10bit (8-bit source, on the way to stdin)
\* or copy_plane_8to10 (a frame stored as bytes, extracted by extr_10bit)
\* widens becomes the little-endian 16-bit word b * 4.
C23_Widening ==
    /\ (pix.pc = "write" /\ ~is_10bit) =>
          \A k \in 1..pix.written : \A j \in 1..calc_8bit_size :
              FromLe(pix.stdin[(k - 1) * calc_10bit_size + 2 * j - 1],
                     pix.stdin[(k - 1) * calc_10bit_size + 2 * j])
                  = pix.frames_buffer[k][j] * 4
    /\ (is_10bit /\ pix.i > 0 /\ ~pix.src[pix.i].deep) =>
          \A j \in 1..Len(PlaneSamples(pix.src[pix.i])) :
              FromLe(pix.frame_buf[2 * j - 1], pix.frame_buf[2 * j])
                  = PlaneSamples(pix.src[pix.i])[j] * 4

\* an 8-bit source whose second frame starts with the byte 255: the word
\* 1020 (252, 3) opens the second frame on stdin
C23_Witness ==
    /\ ~is_10bit /\ pix.written = ChunkFrames
    /\ pix.frames_buffer[2][1] = 255
    /\ pix.stdin[calc_10bit_size + 1] = 252
    /\ pix.stdin[calc_10bit_size + 2] = 3

\* the chunks' worth of raw frames alive: the buffer pool of the decoder
\* (allocated by dec_10bit / dec_8bit, freed when it returns), the ChunkData
\* of a pending send (a copy of the first valid buffers of the pool), and
\* the ChunkData of every worker that has received one and has not yet
\* streamed it to its child (write_frames consumes the frames)
RawChunksAlive ==
    (IF decPc \in {"frames", "send"} THEN 1 ELSE 0)
        + (IF offer # NoData THEN 1 ELSE 0)
        + Cardinality({w \in Workers : wPc[w] = "spawn"})

\* C24 as claimed: at every instant at most 1 + NumWorkers chunks' worth of
\* raw frames is alive.
C24_RawFramesBound ==
    RawChunksAlive <= 1 + NumWorkers

\* C25: a ChunkData that no worker has taken is the one of the send the
\* decoder is blocked in (the channel stores none: all earlier ones have
\* been received, and when the decoder is not in send every one has), and
\* while it is pending no frame of a later chunk has been requested from
\* the decode session.
C25_Rendezvous ==
    /\ offer # NoData =>
          /\ decPc = "send"
          /\ Len(sentLog) = Len(recvLog) + 1
          /\ offer.idx = sentLog[Len(sentLog)]
          /\ \A i \in ChunkIdx :
                i > offer.idx => \A f \in FramesOf(ChunkOf(i)) : extrRes[f] = "none"
    /\ offer = NoData => Len(sentLog) = Len(recvLog)
    /\ \A i \in ChunkIdx :
          (\E f \in FramesOf(ChunkOf(i)) : extrRes[f] # "none") =>
              \A p \in 1..Len(sentLog) :
                  sentLog[p] < i => sentLog[p] \in Range(recvLog)

\* the decoder is blocked in the send of its third chunk while every
\* worker waits for the encoder child of an earlier one
C25_Witness ==
    /\ decPc = "send" /\ offer # NoData
    /\ Len(sentLog) = 3
    /\ \A w \in Workers : wPc[w] = "wait" /\ children[wChild[w]].st = "running"

\* C26: when encode_all has issued the final progress flush and returned,
\* the decoder thread and the NumWorkers worker threads have ended and
\* every encoder child spawned has exited and has been waited for.
C26_JoinBeforeFlush ==
    mainPc = "returned" =>
        /\ decPc = "done"
        /\ \A w \in Workers : wPc[w] = "done"
        /\ \A k \in ChildIds : children[k].reaped /\ children[k].st # "running"

C26_Witness ==
    /\ mainPc = "returned"
    /\ Len(children) = 3
    /\ Cardinality({k \in ChildIds : children[k].reaped}) = 3

\* C27 as claimed: once a worker thread has panicked, encode_all does not
\* return normally, and as long as the process has not ended some thread
\* or encoder child can still take a step (the process does not hang).
C27_PanicFatal ==
    (\E w \in Workers : wPc[w] = "panicked") =>
        /\ mainPc # "returned"
        /\ Alive => ENABLED PanicNext

\* C28 On every fatal path (an error returned by main_with_args, exit(1) after
\* an encoder child failed or could not be spawned, a panic, SIGINT or
\* SIGSEGV) the alt-screen is left, the cursor is shown and the last line
\* printed is the FAIL line.
C28_FatalRestore ==
    (app.pc = "exited" /\ app.how \in {"err", "exit1", "panic", "signal"}) =>
        /\ ~app.alt
        /\ app.cursor
        /\ app.last = "FAIL"

\* C29 In a run started with -r and an input, the effective arguments are
\* those parsed from the cmd.txt that was in the working directory of that
\* input when the run started, with resume set, and as long as the working
\* directory exists its cmd.txt has the text it had when the run started.
C29_ResumeReplay ==
    (app.pc # "idle" /\ app.argv \in ResumeCmds /\ app.hooks) =>
        LET input == app.argv[3]
            saved == app.cmd0[input]
            now == app.dirs[input]
        IN  /\ saved.exists /\ saved.cmd_exists
            /\ app.args = [get_args(parse_quoted_args(saved.cmd), <<>>)
                              EXCEPT !.resume = TRUE]
            /\ now.exists => now.cmd_exists /\ now.cmd = saved.cmd

\* C29 witness: a resume run replays a saved command line with -q, -w 3 and
\* a quoted parameter string and has got past the working-directory step
C29_Witness ==
    /\ app.pc = "encode"
    /\ app.argv \in ResumeCmds
    /\ app.args.resume /\ app.args.quiet /\ app.args.worker = 3
    /\ app.args.params = <<"a", " ", "b">>
    /\ app.dirs[app.argv[3]].cmd = app.cmd0[app.argv[3]].cmd

\* C30 When encode_all has returned in a run that is not quiet and in which
\* no frame extraction failed, the completions hold exactly one record per
\* chunk and their frame counts sum to the frame count of the source.
C30_ResumeInfoComplete ==
    (mainPc = "returned" /\ Alive /\ ~quiet /\ \A f \in Frames : extrRes[f] # "err") =>
        /\ \A i \in ChunkIdx :
              Cardinality({p \in 1..Len(chnks_done) : chnks_done[p].idx = i}) = 1
        /\ Len(chnks_done) = Len(chunks)
        /\ SumFrames(chnks_done) = FrameCount

\* C31 The chroma sample position is taken from the frame's chroma location
\* unless that is unspecified (0), in which case the value ffprobe reports
\* is taken; left (1) gives 1, topleft (3) gives 2, anything else none.
C31_ChromaLoc ==
    call.pc = "chroma_done" =>
        LET left == <<"c", "h", "r", "o", "m", "a", "_", "l", "o", "c", "a", "t", "i", "o", "n", "=", "l", "e", "f", "t">> \o <<"\n">>
            topleft == <<"c", "h", "r", "o", "m", "a", "_", "l", "o", "c", "a", "t", "i", "o", "n", "=", "t", "o", "p", "l", "e", "f", "t">> \o <<"\n">>
            side == IF call.ran /\ call.text = left THEN 1
                    ELSE IF call.ran /\ call.text = topleft THEN 3
                    ELSE 0
            chosen == IF call.frame_chroma # 0 THEN call.frame_chroma ELSE side
        IN  call.out = (IF chosen = 1 THEN 1 ELSE IF chosen = 3 THEN 2 ELSE NoneLoc)

\* C32 In every command built by make_enc_cmd the words of the user
\* parameter string come after all generated flags (the base flags, --crf,
\* the colour flags, the tile flags, the grain table, the quiet flag) and
\* immediately before the final pair -b <output>; --crf is generated exactly
\* when the CRF is at least 0.
C32_ParamsLast ==
    call.pc = "cmd_done" =>
        LET cmd == call.out
            L == Len(cmd)
            n == Len(call.words)
            g == L - 2 - n
            gen == {cmd[p] : p \in 1..g}
            inf == call.cfg.inf
        IN  /\ g >= 30
            /\ cmd[L - 1] = "-b" /\ cmd[L] = call.cfg.output
            /\ SubSeq(cmd, g + 1, L - 2) = call.words
            /\ cmd[1] = "-i" /\ cmd[25] = "--progress"
            /\ ("--crf" \in gen) <=> (call.cfg.crf >= 0)
            /\ {"--tile-columns", "--tile-rows"} \subseteq gen
            /\ ("--color-primaries" \in gen) <=> (inf.color_primaries # <<>>)
            /\ ("--content-light" \in gen) <=> (inf.content_light # <<>>)
            /\ ("--fgs-table" \in gen) <=> (call.cfg.grain_table # <<>>)
            /\ ("--no-progress" \in gen) <=> call.quiet

\* C32 witness: a quiet command with a CRF of 0, a grain table and the user
\* parameters --crf 30
C32_Witness ==
    /\ call.pc = "cmd_done"
    /\ call.cfg.crf = 0 /\ call.quiet /\ call.cfg.grain_table # <<>>
    /\ call.words = <<"--crf", "30">>
    /\ call.out[27] = "--crf" /\ call.out[28] = "0.00"
    /\ SubSeq(call.out, Len(call.out) - 3, Len(call.out)) = <<"--crf", "30", "-b", "0000.ivf">>

\* C33 The decoder never indexes its buffer pool out of range: every frame
\* position i of a chunk it processes is less than the number of buffers
\* of the pool, get_max_chunk_size, and the decoder thread never panics.
C33_PoolInRange ==
    /\ decPc # "panicked"
    /\ (decPc = "frames" /\ filtered[decK].start + decI < filtered[decK].end) =>
           decI < get_max_chunk_size

\* a run in which the decode session did not open or an encoder child
\* failed (it could not be spawned or exited with a non-zero status)
C34_Excused ==
    \/ source = "failed"
    \/ exitCode = ExitFailure
    \/ \E k \in 1..Len(children) : children[k].st = "exitN"

\* every chunk outside the skip set with a valid frame has been received
\* and encoded, the channel is closed, every worker has left its loop and
\* encode_all has returned
C34_Goal ==
    /\ mainPc = "returned"
    /\ decPc = "done"
    /\ \A w \in Workers : wPc[w] = "done"
    /\ \A i \in ChunkIdx \ skip_indices :
          SomeOk(ChunkOf(i)) =>
              /\ i \in Range(recvLog)
              /\ \E k \in 1..Len(children) :
                    /\ children[k].idx = i
                    /\ children[k].st = "exit0" /\ children[k].reaped

\* C34 Under fair scheduling, if the decode session opens and every encoder
\* child exits successfully, eventually every chunk outside the skip set
\* with at least one valid frame has been received and encoded, the channel
\* is closed, every worker has left its receive loop and encode_all has
\* returned.
C34_Liveness == <>(C34_Excused \/ C34_Goal)

\* the frame counts the progress lines among the first p lines report
RECURSIVE C35_Counts(_)
C35_Counts(p) ==
    IF p = 0 THEN <<>>
    ELSE IF call.input[p].kind = "progress"
      THEN Append(C35_Counts(p - 1), call.input[p].n)
      ELSE C35_Counts(p - 1)

\* C35 For one encoder child whose progress lines report non-decreasing
\* frame counts N1 <= ... <= Nk, the running total has grown by exactly the
\* last count reported after every line and at the end of the child: every
\* line with Encoding: adds the delta to the previous one, a line with
\* SUMMARY or without Encoding: adds nothing.
C35_TotalIsLastCount ==
    call.pc \in {"watch", "watch_done"} =>
        LET counts == C35_Counts(call.pos)
        IN  (\A j \in 1..(Len(counts) - 1) : counts[j] <= counts[j + 1]) =>
               call.processed - call.base =
                   (IF counts = <<>> THEN 0 ELSE counts[Len(counts)])

\* C35 witness: the child has ended after the progress lines 1, 2, 2 with a
\* total that started at FrameCount
C35_Witness ==
    /\ call.pc = "watch_done"
    /\ call.base = FrameCount
    /\ C35_Counts(call.pos) = <<1, 2, 2>>
    /\ call.processed = FrameCount + 2

\* C36 Once final_update has started, and so when encode_all has returned
\* to leave the alt-screen, every stderr watcher thread started by
\* watch_enc has finished: none renders or changes the line map any more.
C36_WatchersDone ==
    uiPc[MainThread] # "join" =>
        \A c \in ChunkIdx : uiPc[c] \in {"none", "dead"}

\* C37 In a run that is not quiet, once every worker has been joined the
\* chunks-completed counter equals the number of records of the ResumeInf,
\* and the counter never exceeds the number of chunks.
C37_CounterMatchesRecords ==
    ~quiet =>
        /\ completed <= Len(chunks)
        /\ mainPc = "returned" => completed = Len(chnks_done)

\* C38 For every argument vector whose arguments contain no double quote,
\* parse_quoted_args applied to the text that save_args writes returns the
\* argument vector.
C38_RoundTrip ==
    (/\ call.pc = "parsed"
     /\ \A k \in 1..Len(call.argv) : Find(call.argv[k], <<"\"">>) = 0) =>
        call.out = call.argv

\* a step that removes the working directory of input i, a file in it or
\* its cmd.txt
C39_Removes(i) ==
    /\ app.dirs[i].exists
    /\ \/ ~app'.dirs[i].exists
       \/ ~(app.dirs[i].files \subseteq app'.dirs[i].files)
       \/ app.dirs[i].cmd_exists /\ ~app'.dirs[i].cmd_exists

====
